---- MODULE Spec2Model ----
(***************************************************************************)
(* Cosmic Forge: the computed-field evaluation that CreateEntityModal runs *)
(* on submit, the form state it reads and the create request it sends.     *)
(*                                                                         *)
(* A formula is JavaScript source that handleSubmit splices into a         *)
(* function body and runs with `new Function`.  The model keeps a small    *)
(* expression grammar (literal, identifier, a + b, a * b, id = a,          *)
(* id.push(a), a malformed text, an empty text) and gives each form the    *)
(* meaning the JavaScript engine gives it inside that function body.       *)
(*                                                                         *)
(* The module also holds the field list of CreateTemplateModal and         *)
(* EditTemplateModal (SpecTemplate) and the routes of server.js over the   *)
(* tables of database.sqlite (SpecStore, SpecEntities, SpecRequests), and  *)
(* the pages with their requests in flight: MapDetailPage (SpecMapPage),   *)
(* ProjectPage (SpecProjectPage) and ProjectListPage (SpecListPage).       *)
(***************************************************************************)
EXTENDS Integers, Sequences, FiniteSets, TLC

\* ------------------------------------------------------------------------
\* Bounds
\* ------------------------------------------------------------------------
MaxFields == 2      \* computed fields in the template
MaxRuns == 2        \* submissions of the modal in one behaviour
MaxEdits == 2       \* changes made to the inputs of the form in one behaviour
ParseRange == 30    \* numeric strings "0".."ParseRange" are recognised
MaxNumber == 7       \* number inputs of the sum template hold 0..MaxNumber
MaxTemplateFields == 2  \* rows of the field list of a template modal
MaxIds == 2         \* identifiers the server hands out in one behaviour
MaxTemplates == 1   \* templates created through CreateTemplateModal
MaxFieldEdits == 2  \* changes made to the rows of a template modal while it is open
MaxRows == 1        \* rows in the store of the server under every request
MaxMapRequests == 3 \* requests MapDetailPage sends in one behaviour
MaxSelections == 1  \* location templates selected in MapDetailPage in one behaviour
MaxProjectRequests == 3 \* requests ProjectPage sends in one behaviour
MaxCreated == 1     \* location templates created in ProjectPage in one behaviour
MaxListRequests == 3 \* requests ProjectListPage sends in one behaviour

\* ------------------------------------------------------------------------
\* JavaScript values
\* ------------------------------------------------------------------------
Num(n) == [t |-> "num", n |-> n, s |-> ""]
Str(s) == [t |-> "str", n |-> 0, s |-> s]
NaNV == [t |-> "nan", n |-> 0, s |-> ""]
Undef == [t |-> "undef", n |-> 0, s |-> ""]
Arr(r) == [t |-> "arr", n |-> r, s |-> ""]

EmptyMap == [k \in {} |-> Undef]

Put(m, k, v) == [j \in (DOMAIN m) \cup {k} |-> IF j = k THEN v ELSE m[j]]

RECURSIVE JoinFrom(_, _)
\* ToString of a scalar element, used by Array.prototype.join
ElemToStr(v) ==
  CASE v.t = "num" -> ToString(v.n)
    [] v.t = "str" -> v.s
    [] v.t = "nan" -> "NaN"
    [] OTHER -> ""

JoinFrom(items, i) ==
  IF i > Len(items) THEN ""
  ELSE IF i = Len(items) THEN ElemToStr(items[i])
  ELSE ElemToStr(items[i]) \o "," \o JoinFrom(items, i + 1)

\* ToString(value): what `+` uses when one operand is a string
ToStr(v, heap) ==
  CASE v.t = "num" -> ToString(v.n)
    [] v.t = "str" -> v.s
    [] v.t = "nan" -> "NaN"
    [] v.t = "undef" -> "undefined"
    [] OTHER -> JoinFrom(heap[v.n], 1)

\* Number(string): "" is 0, a decimal numeral is its value, anything else NaN
StrToNum(s) ==
  IF s = "" THEN Num(0)
  ELSE IF \E k \in 0..ParseRange : ToString(k) = s
       THEN Num(CHOOSE k \in 0..ParseRange : ToString(k) = s)
       ELSE NaNV

\* ToNumber(value): what `*` applies to both operands
ToNum(v, heap) ==
  CASE v.t = "num" -> v
    [] v.t = "str" -> StrToNum(v.s)
    [] v.t = "arr" -> StrToNum(JoinFrom(heap[v.n], 1))
    [] OTHER -> NaNV

\* a + b
JsAdd(l, r, heap) ==
  IF l.t \in {"str", "arr"} \/ r.t \in {"str", "arr"}
  THEN Str(ToStr(l, heap) \o ToStr(r, heap))
  ELSE IF l.t = "num" /\ r.t = "num" THEN Num(l.n + r.n)
  ELSE NaNV

\* a * b
JsMul(l, r, heap) ==
  LET a == ToNum(l, heap)
      b == ToNum(r, heap)
  IN IF a.t = "num" /\ b.t = "num" THEN Num(a.n * b.n) ELSE NaNV

\* ------------------------------------------------------------------------
\* Formulas: the text stored in a computed field's `formula` property
\* ------------------------------------------------------------------------
Lit(n) == [k |-> "lit", n |-> n, id |-> ""]
Id(s) == [k |-> "id", n |-> 0, id |-> s]

Atom(a) == [op |-> "atom", a |-> a, b |-> Lit(0)]
Add(a, b) == [op |-> "add", a |-> a, b |-> b]
Mul(a, b) == [op |-> "mul", a |-> a, b |-> b]
Assign(id, b) == [op |-> "assign", a |-> Id(id), b |-> b]
Push(id, b) == [op |-> "push", a |-> Id(id), b |-> b]
Malformed == [op |-> "malformed", a |-> Lit(0), b |-> Lit(0)]
Empty == [op |-> "empty", a |-> Lit(0), b |-> Lit(0)]

\* def: the property exists; comment: the text carries a // or /* */ comment
Text(e) == [def |-> TRUE, comment |-> FALSE, e |-> e]
Commented(e) == [def |-> TRUE, comment |-> TRUE, e |-> e]
NoFormula == [def |-> FALSE, comment |-> FALSE, e |-> Empty]

\* `field.formula` as a condition: undefined and "" are falsy
Truthy(f) == f.def /\ (f.comment \/ f.e.op # "empty")

\* the chain of replace() calls and trim(): comments and blank lines go
CleanFormula(f) == f.e

\* identifiers that occur in an expression
Ids(e) ==
  (IF e.a.k = "id" THEN {e.a.id} ELSE {}) \cup
  (IF e.b.k = "id" THEN {e.b.id} ELSE {})

\* identifiers whose value the expression reads
Reads(e) ==
  CASE e.op = "assign" -> (IF e.b.k = "id" THEN {e.b.id} ELSE {})
    [] e.op \in {"malformed", "empty"} -> {}
    [] OTHER -> Ids(e)

\* ------------------------------------------------------------------------
\* Running one generated function
\* ------------------------------------------------------------------------
Ok(v, heap, globals) ==
  [ok |-> TRUE, v |-> v, msg |-> "", heap |-> heap, globals |-> globals]
Throw(msg, heap, globals) ==
  [ok |-> FALSE, v |-> Undef, msg |-> msg, heap |-> heap, globals |-> globals]

\* a name that can follow `const` in the generated declarations
ValidIdentifier(key) == key \notin {"max hp"}

\* a lookup that yields undefined for a name it does not find
ResolveOrUndefined(id, ctx, heap, globals) ==
  IF id \in DOMAIN ctx THEN Ok(ctx[id], heap, globals)
  ELSE IF id \in DOMAIN globals THEN Ok(globals[id], heap, globals)
  ELSE Ok(Undef, heap, globals)

\* scope lookup: the const declarations of the inner function, then the
\* global object
Resolve(id, ctx, heap, globals) ==
  IF id \in DOMAIN ctx THEN Ok(ctx[id], heap, globals)
  ELSE IF id \in DOMAIN globals THEN Ok(globals[id], heap, globals)
  ELSE Throw(id \o " is not defined", heap, globals)

EvalAtom(at, ctx, heap, globals) ==
  IF at.k = "lit" THEN Ok(Num(at.n), heap, globals)
  ELSE Resolve(at.id, ctx, heap, globals)

\* fn(context): the value of `return <cleanFormula>;` or the exception
Run(e, ctx, heap, globals) ==
  LET ra == EvalAtom(e.a, ctx, heap, globals)
      rb == EvalAtom(e.b, ctx, heap, globals)
  IN CASE e.op = "empty" -> Ok(Undef, heap, globals)
       [] e.op = "atom" -> ra
       [] e.op = "add" ->
            IF ~ra.ok THEN ra ELSE IF ~rb.ok THEN rb
            ELSE Ok(JsAdd(ra.v, rb.v, heap), heap, globals)
       [] e.op = "mul" ->
            IF ~ra.ok THEN ra ELSE IF ~rb.ok THEN rb
            ELSE Ok(JsMul(ra.v, rb.v, heap), heap, globals)
       [] e.op = "assign" ->
            IF ~rb.ok THEN rb
            ELSE IF e.a.id \in DOMAIN ctx
                 THEN Throw("Assignment to constant variable.", heap, globals)
                 ELSE Ok(rb.v, heap, Put(globals, e.a.id, rb.v))
       [] e.op = "push" ->
            IF ~ra.ok THEN ra
            ELSE IF ra.v.t = "undef"
                 THEN Throw("Cannot read properties of undefined (reading 'push')",
                            heap, globals)
            ELSE IF ~rb.ok THEN rb
            ELSE IF ra.v.t # "arr"
                 THEN Throw(e.a.id \o ".push is not a function", heap, globals)
            ELSE LET r == ra.v.n
                     grown == Append(heap[r], rb.v)
                 IN Ok(Num(Len(grown)), [heap EXCEPT ![r] = grown], globals)
       [] OTHER -> Throw("Unexpected token ';'", heap, globals)

\* new Function('context', functionBody): the body declares one const per
\* key of the context and returns the cleaned formula
NewFunction(keys, e) ==
  IF \E key \in keys : ~ValidIdentifier(key)
  THEN [ok |-> FALSE, msg |-> "Missing initializer in const declaration"]
  ELSE IF e.op = "malformed"
       THEN [ok |-> FALSE, msg |-> "Unexpected token ';'"]
       ELSE [ok |-> TRUE, msg |-> ""]

\* ------------------------------------------------------------------------
\* The evaluation pass of handleSubmit
\* ------------------------------------------------------------------------
\* `ERROR: ${e.message}`, the value stored for a field whose formula threw
ErrorMarker(msg) == Str("ERROR: " \o msg)

\* the text given to setError in the catch block
FormulaErrorText(fieldName, msg) ==
  "Error in formula for \"" \o fieldName \o "\": " \o msg
    \o ". Check the console for more details."

\* what one run of the callback leaves in the trace (the console output)
Step(field, r, st) ==
  [name |-> field.name, ok |-> r.ok, v |-> r.v, msg |-> r.msg,
   data |-> st.data, heap |-> st.heap, globals |-> st.globals]

\* the try block: finalData[field.name] = result
StoreResult(field, r, st) ==
  [data |-> Put(st.data, field.name, r.v),
   heap |-> r.heap, globals |-> r.globals, error |-> st.error,
   trace |-> Append(st.trace, Step(field, r, st))]

\* a catch block that stores the bare message
CatchErrorBareMessage(field, r, st) ==
  [data |-> Put(st.data, field.name, Str(r.msg)),
   heap |-> r.heap, globals |-> r.globals,
   error |-> FormulaErrorText(field.name, r.msg),
   trace |-> Append(st.trace, Step(field, r, st))]

\* the catch block: setError(...), finalData[field.name] = `ERROR: ...`
CatchError(field, r, st) ==
  [data |-> Put(st.data, field.name, ErrorMarker(r.msg)),
   heap |-> r.heap, globals |-> r.globals,
   error |-> FormulaErrorText(field.name, r.msg),
   trace |-> Append(st.trace, Step(field, r, st))]

\* a guard that forgets the formula test
IsEvaluatedAnyFormula(field) == field.type = "computed"

\* the guard of the callback: only computed fields with a formula are run
IsEvaluated(field) == field.type = "computed" /\ Truthy(field.formula)

\* the callback given to template.schema.forEach
EvaluateField(field, st) ==
  IF IsEvaluated(field)
  THEN LET cleanFormula == CleanFormula(field.formula)
           context == [key \in DOMAIN st.data |-> st.data[key]]
           fn == NewFunction(DOMAIN context, cleanFormula)
           r == IF fn.ok
                THEN Run(cleanFormula, context, st.heap, st.globals)
                ELSE Throw(fn.msg, st.heap, st.globals)
       IN IF r.ok THEN StoreResult(field, r, st) ELSE CatchError(field, r, st)
  ELSE st

RECURSIVE ForEachUntilError(_, _, _)
\* a loop that a failing formula ends: the fields after it are not run
ForEachUntilError(schema, i, st) ==
  IF i > Len(schema) THEN st
  ELSE LET next == EvaluateField(schema[i], st)
       IN IF Len(next.trace) > Len(st.trace) /\ ~next.trace[Len(next.trace)].ok
          THEN next
          ELSE ForEachUntilError(schema, i + 1, next)

RECURSIVE ForEach(_, _, _)
\* template.schema.forEach(callback): declaration order, first to last
ForEach(schema, i, st) ==
  IF i > Len(schema) THEN st
  ELSE ForEach(schema, i + 1, EvaluateField(schema[i], st))

\* a pass whose finalData starts empty instead of as a copy of formData
EvaluatePassFromEmpty(schema, data, heap, globals, error) ==
  ForEach(schema, 1,
          [data |-> EmptyMap, heap |-> heap,
           globals |-> globals, error |-> error, trace |-> << >>])

\* const finalData = { ...formData } followed by the loop
EvaluatePass(schema, data, heap, globals, error) ==
  ForEach(schema, 1,
          [data |-> [key \in DOMAIN data |-> data[key]], heap |-> heap,
           globals |-> globals, error |-> error, trace |-> << >>])

\* ------------------------------------------------------------------------
\* JSON.stringify of the data object
\* ------------------------------------------------------------------------
JNull == [t |-> "null", n |-> 0, s |-> "", items |-> << >>]

JsonScalar(v) ==
  IF v.t \in {"nan", "undef"} THEN JNull
  ELSE [t |-> v.t, n |-> v.n, s |-> v.s, items |-> << >>]

JsonValue(v, heap) ==
  IF v.t = "arr"
  THEN [t |-> "arr", n |-> 0, s |-> "",
        items |-> [i \in 1..Len(heap[v.n]) |-> JsonScalar(heap[v.n][i])]]
  ELSE JsonScalar(v)

\* keys whose value is undefined are left out, NaN becomes null
JsonStringify(data, heap) ==
  [key \in {k \in DOMAIN data : data[k].t # "undef"} |->
     JsonValue(data[key], heap)]

\* the contents of a data object, arrays by content (used to compare runs)
DeepValue(v, heap) ==
  IF v.t = "arr"
  THEN [t |-> "arr", n |-> 0, s |-> "", items |-> heap[v.n]]
  ELSE [t |-> v.t, n |-> v.n, s |-> v.s, items |-> << >>]

Deep(data, heap) == [key \in DOMAIN data |-> DeepValue(data[key], heap)]

\* ------------------------------------------------------------------------
\* Templates handed to the modal
\* ------------------------------------------------------------------------
Field(n, t, f) == [name |-> n, type |-> t, formula |-> f]

\* the fields the user fills in
BaseFields ==
  << Field("a", "number", NoFormula),
     Field("max hp", "number", NoFormula),
     Field("tags", "multiselect", NoFormula) >>

TagOptions == {"t1"}

ComputedNameSeq == << "x", "y", "z", "w", "v" >>
ComputedNames == {ComputedNameSeq[i] : i \in 1..MaxFields}

FormulaSet ==
  { NoFormula,                                \* no formula yet
    Commented(Add(Id("a"), Lit(1))),          \* // sum \n a + 1
    Text(Add(Id("y"), Lit(1))),               \* y + 1
    Text(Add(Id("x"), Lit(1))),               \* x + 1
    Text(Mul(Id("x"), Lit(2))),               \* x * 2
    Text(Atom(Id("c"))),                      \* c
    Text(Malformed),                          \* a +
    Text(Atom(Id("name"))),                   \* name  (window.name)
    Text(Push("tags", Lit(1))),               \* tags.push(1)
    Text(Assign("a", Lit(1))) }               \* a = 1

NameSeqs ==
  UNION { { ns \in [1..n -> ComputedNames] :
              \A i, j \in 1..n : i # j => ns[i] # ns[j] } : n \in 0..MaxFields }

Schemas ==
  UNION { { BaseFields \o [i \in 1..Len(ns) |-> Field(ns[i], "computed", fs[i])] :
              fs \in [1..Len(ns) -> FormulaSet] } : ns \in NameSeqs }

ProjectId == "p1"
TemplateId == "t1"

\* what the user can type
NameInputs == {"Orc"}
NumberInputs == {"2"}

\* String.prototype.trim: a name of blanks becomes ""
Trim(s) == IF s = " " THEN "" ELSE s

\* the global object of the page before any formula ran: window.name is ""
InitialGlobals == [g \in {"name"} |-> Str("")]

\* ------------------------------------------------------------------------
\* The database
\* ------------------------------------------------------------------------
\* uuidv4(): the k-th identifier the server hands out
Uuid(k) == "u" \o ToString(k)

\* the tables after CREATE TABLE IF NOT EXISTS on an empty file
EmptyDb ==
  [projects |-> {}, templates |-> {}, maps |-> {}, location_templates |-> {},
   locations |-> {}, next |-> 1]

\* req.body has no such property
Lacks(body, key) == key \notin DOMAIN body

\* !value for a property that holds a string: undefined or ''
Falsy(body, key) == Lacks(body, key) \/ body[key] = ""

\* value || '' for a property that holds a string
OrEmpty(body, key) == IF Falsy(body, key) THEN "" ELSE body[key]

\* MapDetailPage is not mounted
NoMapPage == [mounted |-> FALSE]

\* ProjectPage is not mounted
NoProjectPage == [mounted |-> FALSE]

\* ProjectListPage is not mounted
NoListPage == [mounted |-> FALSE]

\* neither template modal is mounted
NoTemplateModal ==
  [kind |-> "closed", id |-> "", templateName |-> "", fields |-> << >>,
   error |-> "", request |-> << >>, response |-> << >>, edits |-> 0]

\* ------------------------------------------------------------------------
\* State
\* ------------------------------------------------------------------------
VARIABLES
  template,    \* the template prop of CreateEntityModal
  formData,    \* useState({})
  name,        \* useState('')
  error,       \* useState(null), "" for null
  submitting,  \* useState(false)
  modal,       \* "open" while the modal is mounted, else "closed"
  heap,        \* the array objects, by reference
  globals,     \* the properties of the global object
  request,     \* the POST in flight, at most one
  response,    \* the answer in flight, at most one
  entities,    \* the rows of the entities table
  pass,        \* the last evaluation pass: its input, finalData and trace
  runs,        \* every pass so far: form contents in, computed entries out
  nruns,       \* number of passes so far
  nedits,      \* number of input changes so far
  db,          \* the other tables of database.sqlite and the ids handed out
  status,      \* the HTTP status of the last answer of the server, 0 if none
  templateModal, \* the state of CreateTemplateModal or EditTemplateModal
  mapPage,     \* MapDetailPage: its state, its modals, its fetches in flight
  projectPage, \* ProjectPage: its state, its modals, its fetches in flight
  listPage     \* ProjectListPage: its state and its fetches in flight

vars == << template, formData, name, error, submitting, modal, heap, globals,
           request, response, entities, pass, runs, nruns, nedits,
           db, status, templateModal, mapPage, projectPage, listPage >>

\* the pages of the router
pageVars == << mapPage, projectPage, listPage >>

\* everything but the form of CreateEntityModal and the entities table
backVars == << db, status, templateModal, pageVars >>

\* the state of CreateEntityModal and of the page that runs its formulas
formVars == << template, formData, name, error, submitting, modal, heap,
              globals, request, response, pass, runs, nruns, nedits >>

NoPass ==
  [done |-> FALSE,
   pre |-> [data |-> EmptyMap, heap |-> << >>, globals |-> InitialGlobals],
   data |-> EmptyMap, heap |-> << >>, globals |-> InitialGlobals,
   trace |-> << >>]

Init ==
  /\ template \in { [id |-> TemplateId, schema |-> sc] : sc \in Schemas }
  /\ formData = EmptyMap
  /\ name = ""
  /\ error = ""
  /\ submitting = FALSE
  /\ modal = "open"
  /\ heap = << >>
  /\ globals = InitialGlobals
  /\ request = << >>
  /\ response = << >>
  /\ entities = << >>
  /\ pass = NoPass
  /\ runs = {}
  /\ nruns = 0
  /\ nedits = 0
  /\ db = EmptyDb
  /\ status = 0
  /\ templateModal = NoTemplateModal
  /\ mapPage = NoMapPage
  /\ projectPage = NoProjectPage
  /\ listPage = NoListPage

FieldsOfType(t) ==
  { template.schema[i].name :
      i \in { j \in 1..Len(template.schema) : template.schema[j].type = t } }

ComputedFields ==
  { template.schema[i] :
      i \in { j \in 1..Len(template.schema) : template.schema[j].type = "computed" } }

\* ------------------------------------------------------------------------
\* The inputs of the form
\* ------------------------------------------------------------------------
\* setFormData(prev => ({ ...prev, [field]: value }))
handleChange(field, value) == formData' = Put(formData, field, value)

\* onChange of the name input
SetName(text) ==
  /\ modal = "open" /\ ~submitting
  /\ name' = text
  /\ UNCHANGED << template, formData, error, submitting, modal, heap, globals,
                  request, response, entities, pass, runs, nruns, nedits >>
  /\ UNCHANGED backVars

\* onChange of a number input: handleChange(fieldKey, Number(e.target.value))
ChangeNumber(field, text) ==
  /\ modal = "open" /\ ~submitting
  /\ field \in FieldsOfType("number")
  /\ nedits < MaxEdits
  /\ nedits' = nedits + 1
  /\ handleChange(field, StrToNum(text))
  /\ UNCHANGED << template, name, error, submitting, modal, heap, globals,
                  request, response, entities, pass, runs, nruns >>
  /\ UNCHANGED backVars

\* onChange of one checkbox of a multiselect: a copy of the current array
\* (or a new one) with the option added or removed
ToggleOption(field, opt) ==
  /\ modal = "open" /\ ~submitting
  /\ field \in FieldsOfType("multiselect")
  /\ nedits < MaxEdits
  /\ nedits' = nedits + 1
  /\ LET isArray == field \in DOMAIN formData /\ formData[field].t = "arr"
         current == IF isArray THEN heap[formData[field].n] ELSE << >>
         checked == \E i \in 1..Len(current) : current[i] = Str(opt)
         first == CHOOSE i \in 1..Len(current) : current[i] = Str(opt)
         next == IF ~checked THEN Append(current, Str(opt))
                 ELSE SubSeq(current, 1, first - 1)
                        \o SubSeq(current, first + 1, Len(current))
     IN /\ heap' = Append(heap, next)
        /\ handleChange(field, Arr(Len(heap) + 1))
  /\ UNCHANGED << template, name, error, submitting, modal, globals,
                  request, response, entities, pass, runs, nruns >>
  /\ UNCHANGED backVars

\* ------------------------------------------------------------------------
\* Submitting the form
\* ------------------------------------------------------------------------
\* the computed entries of a data object
ComputedEntries(schema, data) ==
  [key \in { schema[i].name :
               i \in { j \in 1..Len(schema) :
                         /\ schema[j].type = "computed"
                         /\ schema[j].name \in DOMAIN data } } |-> data[key]]

\* handleSubmit up to the await: name check, evaluation pass, fetch
handleSubmit ==
  /\ modal = "open" /\ ~submitting
  /\ IF Trim(name) = ""
     THEN /\ error' = "Entity name is required"
          /\ UNCHANGED << submitting, heap, globals, request, pass, runs, nruns >>
     ELSE /\ nruns < MaxRuns
          /\ LET st == EvaluatePass(template.schema, formData, heap, globals, error)
                 payload == [project_id |-> ProjectId, name |-> name,
                             template_id |-> template.id,
                             data |-> JsonStringify(st.data, st.heap)]
             IN /\ heap' = st.heap
                /\ globals' = st.globals
                /\ error' = st.error
                /\ submitting' = TRUE
                /\ request' = << payload >>
                /\ pass' = [done |-> TRUE,
                            pre |-> [data |-> formData, heap |-> heap,
                                     globals |-> globals],
                            data |-> st.data, heap |-> st.heap,
                            globals |-> st.globals, trace |-> st.trace]
                /\ runs' = runs \cup
                     { [values |-> Deep(formData, heap),
                        result |-> Deep(ComputedEntries(template.schema, st.data),
                                        st.heap)] }
                /\ nruns' = nruns + 1
  /\ UNCHANGED << template, formData, name, modal, response, entities, nedits >>
  /\ UNCHANGED backVars

\* POST /api/templates/:templateId/entities: validation, INSERT, the status
CreateEntity(templateId, body, dbError) ==
  IF Falsy(body, "project_id") \/ Falsy(body, "name") \/ Lacks(body, "data")
  THEN /\ status' = 400
       /\ UNCHANGED << entities, db >>
  ELSE IF dbError
  THEN /\ status' = 500
       /\ UNCHANGED << entities, db >>
  ELSE /\ entities' = Append(entities,
                         [id |-> Uuid(db.next),
                          project_id |-> body.project_id,
                          template_id |-> templateId,
                          name |-> body.name, data |-> body.data])
       /\ db' = [db EXCEPT !.next = @ + 1]
       /\ status' = 201

\* the body of the answer to the POST
EntityAnswer(code, req) ==
  CASE code = 400 -> [status |-> 400, data |-> EmptyMap,
                      error |-> "Project ID, name, and data are required"]
    [] code = 500 -> [status |-> 500, data |-> EmptyMap,
                      error |-> "Failed to create entity"]
    [] OTHER -> [status |-> 201, data |-> req.data, error |-> ""]

\* the server answers the POST that the modal sent
PostEntity(dbError) ==
  /\ request # << >>
  /\ LET req == request[1]
     IN /\ CreateEntity(req.template_id, req, dbError)
        /\ response' = << EntityAnswer(status', req) >>
  /\ request' = << >>
  /\ UNCHANGED << template, formData, name, error, submitting, modal, heap,
                  globals, pass, runs, nruns, nedits, templateModal, pageVars >>

\* fetch rejects: the request never reaches the server
FetchRejects ==
  /\ request # << >>
  /\ request' = << >>
  /\ error' = "Failed to fetch"
  /\ submitting' = FALSE
  /\ UNCHANGED << template, formData, name, modal, heap, globals, response,
                  entities, pass, runs, nruns, nedits >>
  /\ UNCHANGED backVars

\* onClose: the page unmounts the modal and its state is gone
Unmount ==
  /\ modal' = "closed"
  /\ formData' = EmptyMap
  /\ name' = ""
  /\ error' = ""

\* handleSubmit after the await: onEntityCreated and onClose, or setError
HandleResponse ==
  /\ response # << >>
  /\ response' = << >>
  /\ submitting' = FALSE
  /\ IF response[1].status = 201
     THEN Unmount
     ELSE /\ error' = response[1].error
          /\ UNCHANGED << modal, formData, name >>
  /\ UNCHANGED << template, heap, globals, request, entities, pass, runs,
                  nruns, nedits >>
  /\ UNCHANGED backVars

\* the Cancel button: onClose
Cancel ==
  /\ modal = "open" /\ ~submitting
  /\ Unmount
  /\ UNCHANGED << template, submitting, heap, globals, request, response,
                  entities, pass, runs, nruns, nedits >>
  /\ UNCHANGED backVars

\* the page mounts the modal again: every useState starts from its initial value
Reopen ==
  /\ modal = "closed"
  /\ modal' = "open"
  /\ UNCHANGED << template, formData, name, error, submitting, heap, globals,
                  request, response, entities, pass, runs, nruns, nedits >>
  /\ UNCHANGED backVars

Next ==
  \/ \E text \in NameInputs : SetName(text)
  \/ \E field \in {"a", "max hp"}, text \in NumberInputs : ChangeNumber(field, text)
  \/ \E opt \in TagOptions : ToggleOption("tags", opt)
  \/ handleSubmit
  \/ \E dbError \in BOOLEAN : PostEntity(dbError)
  \/ FetchRejects
  \/ HandleResponse
  \/ Cancel
  \/ Reopen

Spec == Init /\ [][Next]_vars

\* ------------------------------------------------------------------------
\* One submission of a filled-in form
\* ------------------------------------------------------------------------
\* the form states the inputs can produce: each field untouched or set
FormStates ==
  { [data |-> [key \in keys |->
                 IF key = "tags" THEN Arr(1) ELSE StrToNum(text)],
     heap |-> IF "tags" \in keys THEN << << Str(opt) >> >> ELSE << >>] :
      keys \in SUBSET {"a", "max hp", "tags"},
      text \in NumberInputs, opt \in TagOptions }

InitEval ==
  /\ template \in { [id |-> TemplateId, schema |-> sc] : sc \in Schemas }
  /\ \E fs \in FormStates :
       /\ formData = fs.data
       /\ heap = fs.heap
       /\ nedits = Cardinality(DOMAIN fs.data)
  /\ name \in NameInputs
  /\ error = ""
  /\ submitting = FALSE
  /\ modal = "open"
  /\ globals = InitialGlobals
  /\ request = << >>
  /\ response = << >>
  /\ entities = << >>
  /\ pass = NoPass
  /\ runs = {}
  /\ nruns = 0
  /\ db = EmptyDb
  /\ status = 0
  /\ templateModal = NoTemplateModal
  /\ mapPage = NoMapPage
  /\ projectPage = NoProjectPage
  /\ listPage = NoListPage

\* the first click on Create Entity
FirstSubmit == ~pass.done /\ handleSubmit

NextEval ==
  \/ FirstSubmit
  \/ \E dbError \in BOOLEAN : PostEntity(dbError)
  \/ FetchRejects
  \/ HandleResponse

SpecEval == InitEval /\ [][NextEval]_vars

TypeOK ==
  /\ modal \in {"open", "closed"}
  /\ submitting \in BOOLEAN
  /\ Len(request) <= 1 /\ Len(response) <= 1
  /\ nruns \in 0..MaxRuns
  /\ nedits \in 0..MaxEdits
  /\ Len(heap) <= nedits

\* ------------------------------------------------------------------------
\* Reading the last pass
\* ------------------------------------------------------------------------
Steps == 1..Len(pass.trace)

\* finalData as it stood after step j
DataAfter(j) == IF j = Len(pass.trace) THEN pass.data ELSE pass.trace[j + 1].data
HeapAfter(j) == IF j = Len(pass.trace) THEN pass.heap ELSE pass.trace[j + 1].heap
GlobalsAfter(j) ==
  IF j = Len(pass.trace) THEN pass.globals ELSE pass.trace[j + 1].globals

FieldNamed(n) == CHOOSE f \in ComputedFields : f.name = n

\* the entry the handler writes for a step
EntryOf(step) == IF step.ok THEN step.v ELSE ErrorMarker(step.msg)

Rearrangements(schema) ==
  { [i \in 1..Len(schema) |-> schema[p[i]]] :
      p \in { q \in [1..Len(schema) -> 1..Len(schema)] :
                \A i, j \in 1..Len(schema) : i # j => q[i] # q[j] } }

\* the computed entries a pass over `schema` yields from the input of the
\* last pass, arrays by content
ResultOn(schema) ==
  LET st == EvaluatePass(schema, pass.pre.data, pass.pre.heap,
                         pass.pre.globals, "")
  IN Deep(ComputedEntries(schema, st.data), st.heap)

\* C2 as stated: evaluating any permutation of the schema's fields on the
\* same values gives the same result for every computed field.
C2_OrderIndependent ==
  pass.done =>
    \A schema \in Rearrangements(template.schema) :
      ResultOn(schema) = ResultOn(template.schema)

\* ------------------------------------------------------------------------
\* C4
\* ------------------------------------------------------------------------
HasFormula(n, e) ==
  \E f \in ComputedFields : f.name = n /\ f.formula = Text(e)

FailedNames == { pass.trace[j].name : j \in { i \in Steps : ~pass.trace[i].ok } }

\* C4 as stated: with x = y + 1 and y = x + 1 both x and y end with an error
\* result and neither formula is evaluated to a value.
C4_CycleMarksBoth ==
  ( /\ pass.done
    /\ HasFormula("x", Add(Id("y"), Lit(1)))
    /\ HasFormula("y", Add(Id("x"), Lit(1))) )
  => {"x", "y"} \subseteq FailedNames

\* ------------------------------------------------------------------------
\* C5
\* ------------------------------------------------------------------------
\* C5 as stated: a computed field whose formula references a computed field
\* that failed earlier is not given a value: its result is an error.
C5_UpstreamFailureIsError ==
  pass.done =>
    \A i, j \in Steps :
      ( /\ i < j
        /\ ~pass.trace[i].ok
        /\ pass.trace[i].name \in Reads(FieldNamed(pass.trace[j].name).formula.e) )
      => ~pass.trace[j].ok

\* ------------------------------------------------------------------------
\* C3
\* ------------------------------------------------------------------------
RECURSIVE DependentsOf(_, _)
\* the computed fields that reference a field of `names`, directly or through
\* other computed fields (n rounds)
DependentsOf(names, n) ==
  IF n = 0 THEN names
  ELSE DependentsOf(
         names \cup { f.name : f \in { g \in ComputedFields :
                                         Ids(g.formula.e) \cap names # {} } },
         n - 1)

\* the schema with the formula of field `n` replaced
WithFormula(schema, n, formula) ==
  [i \in 1..Len(schema) |->
     IF schema[i].name = n THEN [schema[i] EXCEPT !.formula = formula]
     ELSE schema[i]]

\* a formula that cannot fail: a number literal
Succeeding == { Text(Atom(Lit(k))) : k \in {0, 7} }

OthersUnaffected(j) ==
  /\ DOMAIN DataAfter(j) = DOMAIN pass.trace[j].data \cup {pass.trace[j].name}
  /\ \A key \in DOMAIN pass.trace[j].data \ {pass.trace[j].name} :
       DataAfter(j)[key] = pass.trace[j].data[key]
  /\ HeapAfter(j) = pass.trace[j].heap
  /\ GlobalsAfter(j) = pass.trace[j].globals

C7_FormulaIsSandboxed ==
  pass.done =>
    /\ \A j \in Steps :
         LET e == FieldNamed(pass.trace[j].name).formula.e
         IN /\ Ids(e) \ DOMAIN pass.trace[j].data # {}
               /\ (Ids(e) \ DOMAIN pass.trace[j].data) \subseteq
                    DOMAIN GlobalsAfter(j)
               => ~pass.trace[j].ok
            /\ e.op = "malformed" => ~pass.trace[j].ok
    /\ \A j \in Steps : GlobalsAfter(j) = pass.pre.globals

\* ------------------------------------------------------------------------
\* C8
\* ------------------------------------------------------------------------
JStr(text) == [t |-> "str", n |-> 0, s |-> text, items |-> << >>]

C9_BindingsAreReadOnly ==
  pass.done =>
    /\ Deep(pass.pre.data, pass.heap) = Deep(pass.pre.data, pass.pre.heap)
    /\ \A key \in DOMAIN pass.pre.data :
         DeepValue(pass.data[key], pass.heap)
           = DeepValue(pass.pre.data[key], pass.pre.heap)
    /\ \A j \in Steps :
         DeepValue(pass.data[pass.trace[j].name], pass.heap)
           = DeepValue(EntryOf(pass.trace[j]), HeapAfter(j))

\* ------------------------------------------------------------------------
\* C10
\* ------------------------------------------------------------------------
\* C10 as stated: two passes over the same schema and the same values give
\* the same result for every computed field.
C10_Idempotent ==
  \A r1, r2 \in runs : r1.values = r2.values => r1.result = r2.result

\* ------------------------------------------------------------------------
\* The template routes of the server
\* ------------------------------------------------------------------------
\* POST /api/projects/:projectId/templates
CreateTemplate(projectId, body, dbError) ==
  IF Falsy(body, "name") \/ Lacks(body, "schema")
  THEN status' = 400 /\ UNCHANGED db
  ELSE IF dbError
  THEN status' = 500 /\ UNCHANGED db
  ELSE /\ db' = [db EXCEPT
                   !.templates = @ \cup { [id |-> Uuid(db.next),
                                           project_id |-> projectId,
                                           name |-> body.name,
                                           schema |-> body.schema] },
                   !.next = @ + 1]
       /\ status' = 201

\* GET /api/templates/:templateId
GetTemplate(templateId, dbError) ==
  /\ status' = IF dbError THEN 500
               ELSE IF ~\E t \in db.templates : t.id = templateId THEN 404
               ELSE 200
  /\ UNCHANGED db

\* PUT /api/templates/:templateId
UpdateTemplate(templateId, body, dbError) ==
  IF Falsy(body, "name") \/ Lacks(body, "schema")
  THEN status' = 400 /\ UNCHANGED db
  ELSE IF dbError
  THEN status' = 500 /\ UNCHANGED db
  ELSE IF ~\E t \in db.templates : t.id = templateId
  THEN status' = 404 /\ UNCHANGED db
  ELSE /\ db' = [db EXCEPT
                   !.templates = { IF t.id = templateId
                                   THEN [t EXCEPT !.name = body.name,
                                                  !.schema = body.schema]
                                   ELSE t : t \in @ }]
       /\ status' = 200

\* DELETE /api/templates/:templateId
DeleteTemplate(templateId, dbError) ==
  IF dbError
  THEN status' = 500 /\ UNCHANGED db
  ELSE IF ~\E t \in db.templates : t.id = templateId
  THEN status' = 404 /\ UNCHANGED db
  ELSE /\ db' = [db EXCEPT !.templates = { t \in @ : t.id # templateId }]
       /\ status' = 200

\* ------------------------------------------------------------------------
\* The other routes of the server.  The connection never runs
\* PRAGMA foreign_keys = ON, so SQLite does not enforce the FOREIGN KEY
\* clauses of the tables: an INSERT or DELETE touches its own table only.
\* The created_at and updated_at columns are left out of the rows.
\* ------------------------------------------------------------------------
\* a table without the row `id`
Without(rows, id) == { r \in rows : r.id # id }

\* a route that SELECTs a list: db.all answers every id with the rows found
ListRoute(dbError) ==
  /\ status' = IF dbError THEN 500 ELSE 200
  /\ UNCHANGED db

\* GET /api/projects/:id
GetProject(id, dbError) ==
  /\ status' = IF dbError THEN 500
               ELSE IF ~\E r \in db.projects : r.id = id THEN 404
               ELSE 200
  /\ UNCHANGED db

\* POST /api/projects
CreateProject(body, dbError) ==
  IF Falsy(body, "name")
  THEN status' = 400 /\ UNCHANGED db
  ELSE IF dbError
  THEN status' = 500 /\ UNCHANGED db
  ELSE /\ db' = [db EXCEPT
                   !.projects = @ \cup { [id |-> Uuid(db.next), name |-> body.name] },
                   !.next = @ + 1]
       /\ status' = 201

\* PUT /api/projects/:id
UpdateProject(id, body, dbError) ==
  IF Falsy(body, "name")
  THEN status' = 400 /\ UNCHANGED db
  ELSE IF dbError
  THEN status' = 500 /\ UNCHANGED db
  ELSE IF ~\E r \in db.projects : r.id = id
  THEN status' = 404 /\ UNCHANGED db
  ELSE /\ db' = [db EXCEPT
                   !.projects = { IF r.id = id THEN [r EXCEPT !.name = body.name]
                                  ELSE r : r \in @ }]
       /\ status' = 200

\* DELETE /api/projects/:id
DeleteProject(id, dbError) ==
  IF dbError
  THEN status' = 500 /\ UNCHANGED db
  ELSE IF ~\E r \in db.projects : r.id = id
  THEN status' = 404 /\ UNCHANGED db
  ELSE /\ db' = [db EXCEPT !.projects = Without(@, id)]
       /\ status' = 200

\* GET /api/projects/:projectId/maps/:mapId
GetMap(projectId, mapId, dbError) ==
  /\ status' = IF dbError THEN 500
               ELSE IF ~\E r \in db.maps : r.id = mapId /\ r.project_id = projectId
               THEN 404
               ELSE 200
  /\ UNCHANGED db

\* the map object that POST .../maps builds and INSERTs: image is null
NewMap(id, projectId, body) ==
  [id |-> id, project_id |-> projectId, name |-> body.name,
   description |-> OrEmpty(body, "description"), image |-> ""]

\* POST /api/projects/:projectId/maps
CreateMap(projectId, body, dbError) ==
  IF Falsy(body, "name")
  THEN status' = 400 /\ UNCHANGED db
  ELSE IF dbError
  THEN status' = 500 /\ UNCHANGED db
  ELSE /\ db' = [db EXCEPT
                   !.maps = @ \cup { NewMap(Uuid(db.next), projectId, body) },
                   !.next = @ + 1]
       /\ status' = 201

\* PUT /api/projects/:projectId/maps/:mapId
UpdateMap(projectId, mapId, body, dbError) ==
  IF Falsy(body, "name")
  THEN status' = 400 /\ UNCHANGED db
  ELSE IF dbError
  THEN status' = 500 /\ UNCHANGED db
  ELSE IF ~\E r \in db.maps : r.id = mapId /\ r.project_id = projectId
  THEN status' = 404 /\ UNCHANGED db
  ELSE /\ db' = [db EXCEPT
                   !.maps = { IF r.id = mapId /\ r.project_id = projectId
                              THEN [r EXCEPT !.name = body.name,
                                             !.description =
                                                OrEmpty(body, "description")]
                              ELSE r : r \in @ }]
       /\ status' = 200

\* DELETE /api/projects/:projectId/maps/:mapId
DeleteMap(projectId, mapId, dbError) ==
  IF dbError
  THEN status' = 500 /\ UNCHANGED db
  ELSE IF ~\E r \in db.maps : r.id = mapId /\ r.project_id = projectId
  THEN status' = 404 /\ UNCHANGED db
  ELSE /\ db' = [db EXCEPT
                   !.maps = { r \in @ : ~(r.id = mapId /\ r.project_id = projectId) }]
       /\ status' = 200

\* imagePath of an uploaded file
ImagePath(file) == "/uploads/maps/" \o file

\* POST /api/maps/:mapId/image; file is "" when the form holds no file
UploadMapImage(mapId, file, dbError) ==
  IF file = ""
  THEN status' = 400 /\ UNCHANGED db
  ELSE IF dbError
  THEN status' = 500 /\ UNCHANGED db
  ELSE IF ~\E r \in db.maps : r.id = mapId
  THEN status' = 404 /\ UNCHANGED db
  ELSE /\ db' = [db EXCEPT
                   !.maps = { IF r.id = mapId
                              THEN [r EXCEPT !.image = ImagePath(file)]
                              ELSE r : r \in @ }]
       /\ status' = 200

\* GET /api/location-templates/:templateId
GetLocationTemplate(templateId, dbError) ==
  /\ status' = IF dbError THEN 500
               ELSE IF ~\E r \in db.location_templates : r.id = templateId THEN 404
               ELSE 200
  /\ UNCHANGED db

\* POST /api/projects/:projectId/location-templates
CreateLocationTemplate(projectId, body, dbError) ==
  IF Falsy(body, "name") \/ Lacks(body, "schema")
  THEN status' = 400 /\ UNCHANGED db
  ELSE IF dbError
  THEN status' = 500 /\ UNCHANGED db
  ELSE /\ db' = [db EXCEPT
                   !.location_templates =
                      @ \cup { [id |-> Uuid(db.next), project_id |-> projectId,
                                name |-> body.name, schema |-> body.schema] },
                   !.next = @ + 1]
       /\ status' = 201

\* PUT /api/location-templates/:templateId
UpdateLocationTemplate(templateId, body, dbError) ==
  IF Falsy(body, "name") \/ Lacks(body, "schema")
  THEN status' = 400 /\ UNCHANGED db
  ELSE IF dbError
  THEN status' = 500 /\ UNCHANGED db
  ELSE IF ~\E r \in db.location_templates : r.id = templateId
  THEN status' = 404 /\ UNCHANGED db
  ELSE /\ db' = [db EXCEPT
                   !.location_templates =
                      { IF r.id = templateId
                        THEN [r EXCEPT !.name = body.name, !.schema = body.schema]
                        ELSE r : r \in @ }]
       /\ status' = 200

\* DELETE /api/location-templates/:templateId
DeleteLocationTemplate(templateId, dbError) ==
  IF dbError
  THEN status' = 500 /\ UNCHANGED db
  ELSE IF ~\E r \in db.location_templates : r.id = templateId
  THEN status' = 404 /\ UNCHANGED db
  ELSE /\ db' = [db EXCEPT !.location_templates = Without(@, templateId)]
       /\ status' = 200

\* GET /api/locations/:locationId: the SELECT joins location_templates, so
\* it finds no row for a location whose template row is gone
GetLocation(locationId, dbError) ==
  /\ status' = IF dbError THEN 500
               ELSE IF ~\E l \in db.locations :
                          /\ l.id = locationId
                          /\ \E lt \in db.location_templates : lt.id = l.template_id
               THEN 404
               ELSE 200
  /\ UNCHANGED db

\* the location object that POST .../locations builds and INSERTs
NewLocation(id, mapId, body) ==
  [id |-> id, map_id |-> mapId, template_id |-> body.template_id,
   name |-> body.name, x_position |-> body.x_position,
   y_position |-> body.y_position, data |-> body.data]

\* POST /api/maps/:mapId/locations
CreateLocation(mapId, body, dbError) ==
  IF \/ Falsy(body, "template_id") \/ Falsy(body, "name")
     \/ Lacks(body, "x_position") \/ Lacks(body, "y_position")
     \/ Lacks(body, "data")
  THEN status' = 400 /\ UNCHANGED db
  ELSE IF dbError
  THEN status' = 500 /\ UNCHANGED db
  ELSE /\ db' = [db EXCEPT
                   !.locations = @ \cup { NewLocation(Uuid(db.next), mapId, body) },
                   !.next = @ + 1]
       /\ status' = 201

\* an UPDATE behind a check of the name alone, writing the columns it got
UpdateLocationNameChecked(locationId, body, dbError) ==
  IF Falsy(body, "name")
  THEN status' = 400 /\ UNCHANGED db
  ELSE IF dbError
  THEN status' = 500 /\ UNCHANGED db
  ELSE IF ~\E r \in db.locations : r.id = locationId
  THEN status' = 404 /\ UNCHANGED db
  ELSE /\ db' = [db EXCEPT
                   !.locations = { IF r.id = locationId
                                   THEN [r EXCEPT !.name = body.name]
                                   ELSE r : r \in @ }]
       /\ status' = 200

\* PUT /api/locations/:locationId
UpdateLocation(locationId, body, dbError) ==
  IF \/ Falsy(body, "name")
     \/ Lacks(body, "x_position") \/ Lacks(body, "y_position")
     \/ Lacks(body, "data")
  THEN status' = 400 /\ UNCHANGED db
  ELSE IF dbError
  THEN status' = 500 /\ UNCHANGED db
  ELSE IF ~\E r \in db.locations : r.id = locationId
  THEN status' = 404 /\ UNCHANGED db
  ELSE /\ db' = [db EXCEPT
                   !.locations = { IF r.id = locationId
                                   THEN [r EXCEPT !.name = body.name,
                                                  !.x_position = body.x_position,
                                                  !.y_position = body.y_position,
                                                  !.data = body.data]
                                   ELSE r : r \in @ }]
       /\ status' = 200

\* a DELETE that answers 200 whatever this.changes is
DeleteLocationAnyId(locationId, dbError) ==
  IF dbError
  THEN status' = 500 /\ UNCHANGED db
  ELSE /\ db' = [db EXCEPT !.locations = Without(@, locationId)]
       /\ status' = 200

\* DELETE /api/locations/:locationId
DeleteLocation(locationId, dbError) ==
  IF dbError
  THEN status' = 500 /\ UNCHANGED db
  ELSE IF ~\E r \in db.locations : r.id = locationId
  THEN status' = 404 /\ UNCHANGED db
  ELSE /\ db' = [db EXCEPT !.locations = Without(@, locationId)]
       /\ status' = 200

\* the rows of the entities table with this id
EntityRows(entityId) ==
  { i \in 1..Len(entities) : entities[i].id = entityId }

\* an UPDATE that leaves data_json as it was
UpdateEntityNameOnly(entityId, body, dbError) ==
  IF Falsy(body, "name") \/ Lacks(body, "data")
  THEN status' = 400 /\ UNCHANGED entities
  ELSE IF dbError
  THEN status' = 500 /\ UNCHANGED entities
  ELSE IF EntityRows(entityId) = {}
  THEN status' = 404 /\ UNCHANGED entities
  ELSE /\ entities' = [i \in 1..Len(entities) |->
                         IF entities[i].id = entityId
                         THEN [entities[i] EXCEPT !.name = body.name]
                         ELSE entities[i]]
       /\ status' = 200

\* PUT /api/entities/:entityId
UpdateEntity(entityId, body, dbError) ==
  IF Falsy(body, "name") \/ Lacks(body, "data")
  THEN status' = 400 /\ UNCHANGED entities
  ELSE IF dbError
  THEN status' = 500 /\ UNCHANGED entities
  ELSE IF EntityRows(entityId) = {}
  THEN status' = 404 /\ UNCHANGED entities
  ELSE /\ entities' = [i \in 1..Len(entities) |->
                         IF entities[i].id = entityId
                         THEN [entities[i] EXCEPT !.name = body.name,
                                                  !.data = body.data]
                         ELSE entities[i]]
       /\ status' = 200

\* DELETE /api/entities/:entityId
DeleteEntity(entityId, dbError) ==
  IF dbError
  THEN status' = 500 /\ UNCHANGED entities
  ELSE IF EntityRows(entityId) = {}
  THEN status' = 404 /\ UNCHANGED entities
  ELSE /\ entities' = SelectSeq(entities, LAMBDA r : r.id # entityId)
       /\ status' = 200

\* ------------------------------------------------------------------------
\* CreateTemplateModal and EditTemplateModal
\* ------------------------------------------------------------------------
\* the `options` property of a field: the text of the input, the array of a
\* saved schema, or no property
OptText(text) == [k |-> "text", text |-> text, items |-> << >>]
OptList(items) == [k |-> "list", text |-> "", items |-> items]
OptUndef == [k |-> "undef", text |-> "", items |-> << >>]

\* what the user can type or pick in a row of the field list
FieldNameInputs == {"a"}
FieldTypeInputs == {"select", "computed"}
OptionInputs == {"t1, t2"}
FormulaInputs == { Text(Add(Id("a"), Lit(1))) }
TemplateNameInputs == {"Monster"}

\* text.split(',').map(opt => opt.trim())
Split(text) ==
  CASE text = "" -> << "" >>
    [] text = "t1, t2" -> << "t1", "t2" >>
    [] OTHER -> << text >>

EditorField(n, t, o, f) == [name |-> n, type |-> t, options |-> o, formula |-> f]

\* setFields([...fields, { name: '', type: 'string', options: '' }])
addField ==
  /\ templateModal.kind # "closed"
  /\ Len(templateModal.fields) < MaxTemplateFields
  /\ templateModal' =
       [templateModal EXCEPT
          !.fields = Append(@, EditorField("", "string", OptText(""), NoFormula))]
  /\ UNCHANGED << formVars, entities, db, status, pageVars >>

\* updated[index][key] = value
updateField(index, key, value) ==
  /\ templateModal.kind # "closed"
  /\ index \in 1..Len(templateModal.fields)
  /\ templateModal.edits < MaxFieldEdits
  /\ templateModal' = [templateModal EXCEPT !.fields[index][key] = value,
                                            !.edits = @ + 1]
  /\ UNCHANGED << formVars, entities, db, status, pageVars >>

\* the inputs of a row: the name, the type, the options of a select or
\* multiselect, the formula saved from FormulaEditorModal
ChangeField(index) ==
  \/ \E n \in FieldNameInputs : updateField(index, "name", n)
  \/ \E t \in FieldTypeInputs : updateField(index, "type", t)
  \/ /\ index \in 1..Len(templateModal.fields)
     /\ templateModal.fields[index].type \in {"select", "multiselect"}
     /\ \E o \in OptionInputs : updateField(index, "options", OptText(o))
  \/ /\ index \in 1..Len(templateModal.fields)
     /\ templateModal.fields[index].type = "computed"
     /\ \E f \in FormulaInputs : updateField(index, "formula", f)

\* setFields(fields.filter((_, i) => i !== index))
removeField(index) ==
  /\ templateModal.kind # "closed"
  /\ index \in 1..Len(templateModal.fields)
  /\ templateModal' =
       [templateModal EXCEPT
          !.fields = SubSeq(@, 1, index - 1) \o SubSeq(@, index + 1, Len(@))]
  /\ UNCHANGED << formVars, entities, db, status, pageVars >>

\* onChange of the template name input
SetTemplateName(text) ==
  /\ templateModal.kind # "closed"
  /\ templateModal' = [templateModal EXCEPT !.templateName = text]
  /\ UNCHANGED << formVars, entities, db, status, pageVars >>


\* one entry of cleanFields, as JSON.stringify writes it: options only for a
\* select or multiselect, formula only for a computed field (and only when
\* the property is defined)
CleanField(field) ==
  EditorField(field.name, field.type,
              IF field.type \in {"select", "multiselect"}
              THEN OptList(Split(field.options.text)) ELSE OptUndef,
              IF field.type = "computed" THEN field.formula ELSE NoFormula)

\* options.split is called on something that is not a string: a TypeError
SplitThrows(fields) ==
  \E i \in 1..Len(fields) :
    /\ fields[i].type \in {"select", "multiselect"}
    /\ fields[i].options.k # "text"

cleanFields(fields) == [i \in 1..Len(fields) |-> CleanField(fields[i])]

\* handleSubmit of a template modal up to the await (one request in flight)
handleSubmitTemplate ==
  /\ templateModal.kind # "closed"
  /\ templateModal.request = << >> /\ templateModal.response = << >>
  /\ IF Trim(templateModal.templateName) = ""
     THEN templateModal' = [templateModal EXCEPT !.error = "Template name is required"]
     ELSE IF SplitThrows(templateModal.fields)
     THEN UNCHANGED templateModal
     ELSE templateModal' =
            [templateModal EXCEPT
               !.request = << [kind |-> templateModal.kind, id |-> templateModal.id,
                               name |-> templateModal.templateName,
                               schema |-> cleanFields(templateModal.fields)] >>]
  /\ UNCHANGED << formVars, entities, db, status, pageVars >>

\* the error text of a failed template request
TemplateError(kind, code) ==
  CASE code = 400 -> "Name and schema are required"
    [] code = 404 -> "Template not found"
    [] code = 500 -> IF kind = "create" THEN "Failed to create template"
                     ELSE "Failed to update template"
    [] OTHER -> ""

\* the server answers the request a template modal sent
ServeTemplate(dbError) ==
  /\ templateModal.request # << >>
  /\ LET req == templateModal.request[1]
     IN /\ IF req.kind = "create"
           THEN CreateTemplate(ProjectId, req, dbError)
           ELSE UpdateTemplate(req.id, req, dbError)
        /\ templateModal' =
             [templateModal EXCEPT
                !.request = << >>,
                !.response = << [status |-> status',
                                 error |-> TemplateError(req.kind, status')] >>]
  /\ UNCHANGED << formVars, entities, pageVars >>

\* handleSubmit after the await: the callback and onClose, or setError
HandleTemplateResponse ==
  /\ templateModal.response # << >>
  /\ LET res == templateModal.response[1]
     IN templateModal' =
          IF templateModal.kind = "closed" \/ res.status \in {200, 201}
          THEN NoTemplateModal
          ELSE [templateModal EXCEPT !.response = << >>, !.error = res.error]
  /\ UNCHANGED << formVars, entities, db, status, pageVars >>

\* the Cancel button: onClose
CancelTemplate ==
  /\ templateModal.kind # "closed"
  /\ templateModal' = [NoTemplateModal EXCEPT
                         !.request = templateModal.request,
                         !.response = templateModal.response]
  /\ UNCHANGED << formVars, entities, db, status, pageVars >>

\* the page mounts CreateTemplateModal
OpenCreateTemplate ==
  /\ templateModal = NoTemplateModal
  /\ Cardinality(db.templates) < MaxTemplates
  /\ templateModal' = [NoTemplateModal EXCEPT !.kind = "create"]
  /\ UNCHANGED << formVars, entities, db, status, pageVars >>

\* the page mounts EditTemplateModal: the effect copies name and schema
OpenEditTemplate(t) ==
  /\ templateModal = NoTemplateModal
  /\ t \in db.templates
  /\ templateModal' = [NoTemplateModal EXCEPT
                         !.kind = "edit", !.id = t.id,
                         !.templateName = t.name, !.fields = t.schema]
  /\ UNCHANGED << formVars, entities, db, status, pageVars >>

InitTemplate ==
  /\ template = [id |-> TemplateId, schema |-> BaseFields]
  /\ formData = EmptyMap
  /\ name = ""
  /\ error = ""
  /\ submitting = FALSE
  /\ modal = "closed"
  /\ heap = << >>
  /\ globals = InitialGlobals
  /\ request = << >>
  /\ response = << >>
  /\ entities = << >>
  /\ pass = NoPass
  /\ runs = {}
  /\ nruns = 0
  /\ nedits = 0
  /\ db = EmptyDb
  /\ status = 0
  /\ templateModal = NoTemplateModal
  /\ mapPage = NoMapPage
  /\ projectPage = NoProjectPage
  /\ listPage = NoListPage

NextTemplate ==
  \/ OpenCreateTemplate
  \/ \E t \in db.templates : OpenEditTemplate(t)
  \/ \E text \in TemplateNameInputs : SetTemplateName(text)
  \/ addField
  \/ \E index \in 1..MaxTemplateFields : ChangeField(index)
  \/ \E index \in 1..MaxTemplateFields : removeField(index)
  \/ handleSubmitTemplate
  \/ \E dbError \in BOOLEAN : ServeTemplate(dbError)
  \/ HandleTemplateResponse
  \/ CancelTemplate

SpecTemplate == InitTemplate /\ [][NextTemplate]_vars

\* the schemas that a template modal saved
SavedSchemas == { t.schema : t \in db.templates }

\* ------------------------------------------------------------------------
\* The server under requests of any client
\* ------------------------------------------------------------------------
\* the identifiers a request can name: handed out already, or not (yet)
KnownIds == { Uuid(k) : k \in 1..MaxIds }

\* the names a request body carries: "" stands for a missing name
NewNames == {"", "A"}
EditNames == {"", "B"}

\* the schema of the templates the clients create: a and x = a + 1
StoreSchema ==
  << Field("a", "number", NoFormula),
     Field("x", "computed", Text(Add(Id("a"), Lit(1)))) >>

\* entity data as the client sends it: as created (a = 2, x = 3) and as
\* edited (a = 5, x still 3)
DocCreated == JsonStringify(Put(Put(EmptyMap, "a", Num(2)), "x", Num(3)), << >>)
DocEdited == JsonStringify(Put(Put(EmptyMap, "a", Num(5)), "x", Num(3)), << >>)

\* the positions a request body carries, in hundredths of the image's width
\* or height: 1.0 and 1.5
PositionInputs == {100, 150}

\* the file of an upload form: none, or map.png
FileInputs == {"", "map.png"}

\* the data of a location placed by a click: {}
NoData == JsonStringify(EmptyMap, << >>)

\* the body `full`, and `full` without one of its properties
LackingOne(full) ==
  { full } \cup { [k \in DOMAIN full \ {gone} |-> full[k]] : gone \in DOMAIN full }

NameBodies(names) == UNION { LackingOne([name |-> n]) : n \in names }
MapBodies(names) ==
  UNION { LackingOne([name |-> n, description |-> "d"]) : n \in names }
TemplateBodies(names) ==
  UNION { LackingOne([name |-> n, schema |-> StoreSchema]) : n \in names }
LocationBodies ==
  UNION { LackingOne([template_id |-> t, name |-> n, x_position |-> x,
                      y_position |-> y, data |-> NoData]) :
            t \in KnownIds \cup {""}, n \in NewNames,
            x \in PositionInputs, y \in PositionInputs }
LocationUpdates ==
  UNION { LackingOne([name |-> n, x_position |-> x, y_position |-> y,
                      data |-> NoData]) :
            n \in EditNames, x \in PositionInputs, y \in PositionInputs }
EntityBodies ==
  UNION { LackingOne([project_id |-> p, name |-> n, data |-> DocCreated]) :
            p \in KnownIds \cup {""}, n \in NewNames }
EntityUpdates ==
  UNION { LackingOne([name |-> n, data |-> DocEdited]) : n \in EditNames }

\* a route that works on the tables of db / on the entities table
OnDb == UNCHANGED << formVars, templateModal, pageVars, entities >>
OnEntities == UNCHANGED << formVars, templateModal, pageVars, db >>

InitStore == InitTemplate

NextStore ==
  \/ \E e \in BOOLEAN : ListRoute(e) /\ OnDb
  \/ \E id \in KnownIds, e \in BOOLEAN : GetProject(id, e) /\ OnDb
  \/ \E body \in NameBodies(NewNames), e \in BOOLEAN :
       db.next <= MaxIds /\ CreateProject(body, e) /\ OnDb
  \/ \E id \in KnownIds, body \in NameBodies(EditNames), e \in BOOLEAN :
       UpdateProject(id, body, e) /\ OnDb
  \/ \E id \in KnownIds, e \in BOOLEAN : DeleteProject(id, e) /\ OnDb
  \/ \E p \in KnownIds, body \in TemplateBodies(NewNames), e \in BOOLEAN :
       db.next <= MaxIds /\ CreateTemplate(p, body, e) /\ OnDb
  \/ \E id \in KnownIds, e \in BOOLEAN : GetTemplate(id, e) /\ OnDb
  \/ \E id \in KnownIds, body \in TemplateBodies(EditNames), e \in BOOLEAN :
       UpdateTemplate(id, body, e) /\ OnDb
  \/ \E id \in KnownIds, e \in BOOLEAN : DeleteTemplate(id, e) /\ OnDb
  \/ \E p \in KnownIds, id \in KnownIds, e \in BOOLEAN :
       GetMap(p, id, e) /\ OnDb
  \/ \E p \in KnownIds, body \in MapBodies(NewNames), e \in BOOLEAN :
       db.next <= MaxIds /\ CreateMap(p, body, e) /\ OnDb
  \/ \E p \in KnownIds, id \in KnownIds, body \in MapBodies(EditNames),
        e \in BOOLEAN : UpdateMap(p, id, body, e) /\ OnDb
  \/ \E p \in KnownIds, id \in KnownIds, e \in BOOLEAN :
       DeleteMap(p, id, e) /\ OnDb
  \/ \E id \in KnownIds, file \in FileInputs, e \in BOOLEAN :
       UploadMapImage(id, file, e) /\ OnDb
  \/ \E id \in KnownIds, e \in BOOLEAN : GetLocationTemplate(id, e) /\ OnDb
  \/ \E p \in KnownIds, body \in TemplateBodies(NewNames), e \in BOOLEAN :
       db.next <= MaxIds /\ CreateLocationTemplate(p, body, e) /\ OnDb
  \/ \E id \in KnownIds, body \in TemplateBodies(EditNames), e \in BOOLEAN :
       UpdateLocationTemplate(id, body, e) /\ OnDb
  \/ \E id \in KnownIds, e \in BOOLEAN : DeleteLocationTemplate(id, e) /\ OnDb
  \/ \E id \in KnownIds, e \in BOOLEAN : GetLocation(id, e) /\ OnDb
  \/ \E m \in KnownIds, body \in LocationBodies, e \in BOOLEAN :
       db.next <= MaxIds /\ CreateLocation(m, body, e) /\ OnDb
  \/ \E id \in KnownIds, body \in LocationUpdates, e \in BOOLEAN :
       UpdateLocation(id, body, e) /\ OnDb
  \/ \E id \in KnownIds, e \in BOOLEAN : DeleteLocation(id, e) /\ OnDb
  \/ \E t \in KnownIds, body \in EntityBodies, e \in BOOLEAN :
       /\ db.next <= MaxIds
       /\ CreateEntity(t, body, e)
       /\ UNCHANGED << formVars, templateModal, pageVars >>
  \/ \E id \in KnownIds, body \in EntityUpdates, e \in BOOLEAN :
       UpdateEntity(id, body, e) /\ OnEntities
  \/ \E id \in KnownIds, e \in BOOLEAN : DeleteEntity(id, e) /\ OnEntities

SpecStore == InitStore /\ [][NextStore]_vars

\* the entity routes alone
NextEntities ==
  \/ \E t \in KnownIds, body \in EntityBodies, e \in BOOLEAN :
       /\ db.next <= MaxIds
       /\ CreateEntity(t, body, e)
       /\ UNCHANGED << formVars, templateModal, pageVars >>
  \/ \E id \in KnownIds, body \in EntityUpdates, e \in BOOLEAN :
       UpdateEntity(id, body, e) /\ OnEntities
  \/ \E id \in KnownIds, e \in BOOLEAN : DeleteEntity(id, e) /\ OnEntities

SpecEntities == InitStore /\ [][NextEntities]_vars

\* ------------------------------------------------------------------------
\* The server with a store of at most MaxRows rows, under every request
\* ------------------------------------------------------------------------
\* the ids of the rows, and one id that no row has
RequestIds == { Uuid(k) : k \in 1..(MaxRows + 1) }

CreatedNames == {"A"}
UpdatedNames == {"B"}

\* the bodies of the requests, with or without one of their properties
LocationRequests ==
  UNION { LackingOne([template_id |-> Uuid(1), name |-> n, x_position |-> 100,
                      y_position |-> 100, data |-> NoData]) : n \in CreatedNames }
LocationUpdateRequests ==
  UNION { LackingOne([template_id |-> Uuid(1), name |-> n, x_position |-> 0,
                      y_position |-> 100, data |-> NoData]) : n \in UpdatedNames }
EntityRequests ==
  UNION { LackingOne([project_id |-> Uuid(1), name |-> n, data |-> DocCreated]) :
            n \in CreatedNames }
EntityUpdateRequests ==
  UNION { LackingOne([project_id |-> Uuid(1), name |-> n, data |-> DocEdited]) :
            n \in UpdatedNames }

NextRequests ==
  \/ \E e \in BOOLEAN : ListRoute(e) /\ OnDb
  \/ \E id \in RequestIds, e \in BOOLEAN : GetProject(id, e) /\ OnDb
  \/ \E body \in NameBodies(CreatedNames), e \in BOOLEAN :
       db.next <= MaxRows /\ CreateProject(body, e) /\ OnDb
  \/ \E id \in RequestIds, body \in NameBodies(UpdatedNames), e \in BOOLEAN :
       UpdateProject(id, body, e) /\ OnDb
  \/ \E id \in RequestIds, e \in BOOLEAN : DeleteProject(id, e) /\ OnDb
  \/ \E p \in RequestIds, body \in TemplateBodies(CreatedNames), e \in BOOLEAN :
       db.next <= MaxRows /\ CreateTemplate(p, body, e) /\ OnDb
  \/ \E id \in RequestIds, e \in BOOLEAN : GetTemplate(id, e) /\ OnDb
  \/ \E id \in RequestIds, body \in TemplateBodies(UpdatedNames), e \in BOOLEAN :
       UpdateTemplate(id, body, e) /\ OnDb
  \/ \E id \in RequestIds, e \in BOOLEAN : DeleteTemplate(id, e) /\ OnDb
  \/ \E p \in RequestIds, id \in RequestIds, e \in BOOLEAN :
       GetMap(p, id, e) /\ OnDb
  \/ \E p \in RequestIds, body \in MapBodies(CreatedNames), e \in BOOLEAN :
       db.next <= MaxRows /\ CreateMap(p, body, e) /\ OnDb
  \/ \E p \in RequestIds, id \in RequestIds, body \in MapBodies(UpdatedNames),
        e \in BOOLEAN : UpdateMap(p, id, body, e) /\ OnDb
  \/ \E p \in RequestIds, id \in RequestIds, e \in BOOLEAN :
       DeleteMap(p, id, e) /\ OnDb
  \/ \E id \in RequestIds, file \in FileInputs, e \in BOOLEAN :
       UploadMapImage(id, file, e) /\ OnDb
  \/ \E id \in RequestIds, e \in BOOLEAN : GetLocationTemplate(id, e) /\ OnDb
  \/ \E p \in RequestIds, body \in TemplateBodies(CreatedNames), e \in BOOLEAN :
       db.next <= MaxRows /\ CreateLocationTemplate(p, body, e) /\ OnDb
  \/ \E id \in RequestIds, body \in TemplateBodies(UpdatedNames), e \in BOOLEAN :
       UpdateLocationTemplate(id, body, e) /\ OnDb
  \/ \E id \in RequestIds, e \in BOOLEAN : DeleteLocationTemplate(id, e) /\ OnDb
  \/ \E id \in RequestIds, e \in BOOLEAN : GetLocation(id, e) /\ OnDb
  \/ \E m \in RequestIds, body \in LocationRequests, e \in BOOLEAN :
       db.next <= MaxRows /\ CreateLocation(m, body, e) /\ OnDb
  \/ \E id \in RequestIds, body \in LocationUpdateRequests, e \in BOOLEAN :
       UpdateLocation(id, body, e) /\ OnDb
  \/ \E id \in RequestIds, e \in BOOLEAN : DeleteLocation(id, e) /\ OnDb
  \/ \E t \in RequestIds, body \in EntityRequests, e \in BOOLEAN :
       /\ db.next <= MaxRows
       /\ CreateEntity(t, body, e)
       /\ UNCHANGED << formVars, templateModal, pageVars >>
  \/ \E id \in RequestIds, body \in EntityUpdateRequests, e \in BOOLEAN :
       UpdateEntity(id, body, e) /\ OnEntities
  \/ \E id \in RequestIds, e \in BOOLEAN : DeleteEntity(id, e) /\ OnEntities

SpecRequests == InitStore /\ [][NextRequests]_vars

\* ------------------------------------------------------------------------
\* MapDetailPage, with EditMapModal and ConfirmDeleteModal, and the server
\* that answers its requests
\* ------------------------------------------------------------------------
\* the project, the map and the location template of the page
PageProjectId == Uuid(1)
PageMapId == Uuid(2)
PageTemplate == [id |-> Uuid(3), project_id |-> PageProjectId, name |-> "Town",
                 schema |-> << >>]

\* the store when the page is opened: the map has no image yet
MapPageDb ==
  [EmptyDb EXCEPT
     !.projects = { [id |-> PageProjectId, name |-> "World"] },
     !.maps = { NewMap(PageMapId, PageProjectId, [name |-> "Coast"]) },
     !.location_templates = { PageTemplate },
     !.next = 4]

\* the page after fetchMap, fetchTemplates and fetchLocations
MountedMapPage ==
  [mounted |-> TRUE,
   map |-> NewMap(PageMapId, PageProjectId, [name |-> "Coast"]),
   uploading |-> FALSE,
   locationTemplates |-> << PageTemplate >>,
   selectedTemplate |-> << >>,
   locations |-> << >>,
   activeLocation |-> << >>,
   showEditMapModal |-> FALSE, isSaving |-> FALSE,
   showDeleteMapModal |-> FALSE, isDeleting |-> FALSE,
   alert |-> "",
   selections |-> 0,
   sent |-> 0,
   net |-> {}]

\* where a click can fall on the image, in hundredths of its width and height
ClickPoints == { << 0, 100 >>, << 50, 50 >> }

\* what the user types into EditMapModal
MapNameInputs == {"Shore"}
MapDescriptionInputs == {"", "d"}

\* map.image is truthy: the image, the top bar and the markers are rendered
HasImage(m) == "image" \in DOMAIN m /\ m.image # ""

\* no modal covers the page
NoModal ==
  /\ ~mapPage.showEditMapModal
  /\ ~mapPage.showDeleteMapModal
  /\ mapPage.activeLocation = << >>

\* a step of the page alone / of the server answering the page
InMapPage ==
  UNCHANGED << formVars, templateModal, entities, db, status, projectPage, listPage >>
OnMapPage == UNCHANGED << formVars, templateModal, entities, projectPage, listPage >>

\* a request of the page, not yet answered
MapRequest(kind, body) ==
  [kind |-> kind, n |-> mapPage.sent + 1, body |-> body, reply |-> 0,
   answer |-> << >>,
   locations |-> mapPage.locations,
   selectedTemplate |-> mapPage.selectedTemplate]

\* the page sends a request
SendMapRequest(page, req) ==
  [page EXCEPT !.sent = @ + 1, !.net = @ \cup { req }]

\* handleImageUpload up to its await
handleImageUpload(file) ==
  /\ mapPage.mounted /\ NoModal
  /\ ~mapPage.uploading
  /\ file # ""
  /\ mapPage.sent < MaxMapRequests
  /\ mapPage' = SendMapRequest([mapPage EXCEPT !.uploading = TRUE],
                               MapRequest("upload", file))
  /\ InMapPage

\* onSelectTemplate of LocationCreationModal
onSelectTemplate(tpl) ==
  /\ mapPage.mounted /\ NoModal
  /\ HasImage(mapPage.map)
  /\ \E i \in 1..Len(mapPage.locationTemplates) : mapPage.locationTemplates[i] = tpl
  /\ mapPage.selections < MaxSelections
  /\ mapPage' = [mapPage EXCEPT !.selectedTemplate = << tpl >>,
                                !.selections = @ + 1]
  /\ InMapPage

\* handleMapClick up to its await
handleMapClick(x, y) ==
  /\ mapPage.mounted /\ NoModal
  /\ HasImage(mapPage.map)
  /\ mapPage.selectedTemplate # << >>
  /\ mapPage.sent < MaxMapRequests
  /\ mapPage' =
       SendMapRequest(mapPage,
         MapRequest("create",
           [template_id |-> mapPage.selectedTemplate[1].id,
            name |-> "New " \o mapPage.selectedTemplate[1].name,
            x_position |-> x, y_position |-> y, data |-> NoData]))
  /\ InMapPage

\* the Edit Map button
openEditMapModal ==
  /\ mapPage.mounted /\ NoModal
  /\ mapPage' = [mapPage EXCEPT !.showEditMapModal = TRUE]
  /\ InMapPage

\* handleSubmit of EditMapModal and handleEditMap up to its await
handleEditMap(newName, description) ==
  /\ mapPage.mounted /\ mapPage.showEditMapModal
  /\ ~mapPage.isSaving
  /\ mapPage.sent < MaxMapRequests
  /\ mapPage' = SendMapRequest([mapPage EXCEPT !.isSaving = TRUE],
                               MapRequest("edit", [name |-> newName,
                                                   description |-> description]))
  /\ InMapPage

\* onClose of EditMapModal: the backdrop, or Cancel while it is enabled
closeEditMapModal ==
  /\ mapPage.mounted /\ mapPage.showEditMapModal
  /\ mapPage' = [mapPage EXCEPT !.showEditMapModal = FALSE, !.isSaving = FALSE]
  /\ InMapPage

\* the Delete Map button: ConfirmDeleteModal mounts with isDeleting false
openDeleteMapModal ==
  /\ mapPage.mounted /\ NoModal
  /\ mapPage' = [mapPage EXCEPT !.showDeleteMapModal = TRUE, !.isDeleting = FALSE]
  /\ InMapPage

\* handleConfirm of ConfirmDeleteModal and handleDeleteMap up to its await
handleConfirm ==
  /\ mapPage.mounted /\ mapPage.showDeleteMapModal
  /\ ~mapPage.isDeleting
  /\ mapPage.sent < MaxMapRequests
  /\ mapPage' = SendMapRequest([mapPage EXCEPT !.isDeleting = TRUE],
                               MapRequest("delete", << >>))
  /\ InMapPage

\* the Cancel button of ConfirmDeleteModal, disabled while isDeleting
cancelDelete ==
  /\ mapPage.mounted /\ mapPage.showDeleteMapModal
  /\ ~mapPage.isDeleting
  /\ mapPage' = [mapPage EXCEPT !.showDeleteMapModal = FALSE]
  /\ InMapPage

\* a click on the backdrop of ConfirmDeleteModal: onCancel, never disabled
clickDeleteBackdrop ==
  /\ mapPage.mounted /\ mapPage.showDeleteMapModal
  /\ mapPage' = [mapPage EXCEPT !.showDeleteMapModal = FALSE, !.isDeleting = FALSE]
  /\ InMapPage

\* onCancel of LocationInstanceForm
closeLocationForm ==
  /\ mapPage.mounted /\ mapPage.activeLocation # << >>
  /\ mapPage' = [mapPage EXCEPT !.activeLocation = << >>]
  /\ InMapPage

\* the route that a request of the page reaches
MapRoute(req, dbError) ==
  CASE req.kind = "upload" -> UploadMapImage(PageMapId, req.body, dbError)
    [] req.kind = "create" -> CreateLocation(PageMapId, req.body, dbError)
    [] req.kind = "edit" -> UpdateMap(PageProjectId, PageMapId, req.body, dbError)
    [] req.kind = "delete" -> DeleteMap(PageProjectId, PageMapId, dbError)

\* the JSON that the route sends with a 200 or a 201
MapAnswer(req) ==
  CASE req.kind = "upload" -> [image |-> ImagePath(req.body)]
    [] req.kind = "create" -> NewLocation(Uuid(db.next), PageMapId, req.body)
    [] req.kind = "edit" -> [id |-> PageMapId, project_id |-> PageProjectId,
                             name |-> req.body.name,
                             description |-> req.body.description]
    [] req.kind = "delete" -> [message |-> "Map deleted successfully"]

\* the server handles one request of the page
ServeMapPage ==
  /\ mapPage.mounted
  /\ \E req \in { r \in mapPage.net : r.reply = 0 }, dbError \in BOOLEAN :
       /\ MapRoute(req, dbError)
       /\ mapPage' =
            [mapPage EXCEPT
               !.net = (@ \ { req }) \cup
                         { [req EXCEPT !.reply = status',
                                       !.answer = IF status' \in {200, 201}
                                                  THEN << MapAnswer(req) >>
                                                  ELSE << >>] }]
  /\ OnMapPage

\* setMap((prev) => ({ ...prev, image }))
WithImage(m, image) ==
  [k \in DOMAIN m \cup {"image"} |-> IF k = "image" THEN image ELSE m[k]]

\* a handler of the page after its await, with the answer to its request
AfterAwait(page, req) ==
  CASE req.kind = "upload" ->
         IF req.reply = 200
         THEN [page EXCEPT !.map = WithImage(@, req.answer[1].image),
                           !.uploading = FALSE]
         ELSE [page EXCEPT !.alert = "Failed to upload image.",
                           !.uploading = FALSE]
    [] req.kind = "create" ->
         IF req.reply = 201
         THEN [page EXCEPT !.locations = Append(req.locations, req.answer[1]),
                           !.activeLocation = << req.answer[1].id >>,
                           !.selectedTemplate = << >>]
         ELSE [page EXCEPT !.alert = "Failed to create location"]
    [] req.kind = "edit" ->
         IF req.reply = 200
         THEN [page EXCEPT !.map = req.answer[1],
                           !.showEditMapModal = FALSE, !.isSaving = FALSE]
         ELSE [page EXCEPT !.alert = "Failed to update map", !.isSaving = FALSE]
    [] req.kind = "delete" ->
         IF req.reply = 200
         THEN NoMapPage
         ELSE [page EXCEPT !.alert = "Failed to delete map"]

\* the answer to a request arrives and its handler runs to its end
ReceiveMapPage ==
  /\ mapPage.mounted
  /\ \E req \in { r \in mapPage.net : r.reply # 0 } :
       mapPage' = AfterAwait([mapPage EXCEPT !.net = @ \ { req }], req)
  /\ InMapPage

InitMapPage ==
  /\ template = [id |-> TemplateId, schema |-> BaseFields]
  /\ formData = EmptyMap
  /\ name = ""
  /\ error = ""
  /\ submitting = FALSE
  /\ modal = "closed"
  /\ heap = << >>
  /\ globals = InitialGlobals
  /\ request = << >>
  /\ response = << >>
  /\ entities = << >>
  /\ pass = NoPass
  /\ runs = {}
  /\ nruns = 0
  /\ nedits = 0
  /\ db = MapPageDb
  /\ status = 0
  /\ templateModal = NoTemplateModal
  /\ mapPage = MountedMapPage
  /\ projectPage = NoProjectPage
  /\ listPage = NoListPage

NextMapPage ==
  \/ \E file \in FileInputs : handleImageUpload(file)
  \/ \E tpl \in { PageTemplate } : onSelectTemplate(tpl)
  \/ \E pt \in ClickPoints : handleMapClick(pt[1], pt[2])
  \/ openEditMapModal
  \/ \E n \in MapNameInputs, d \in MapDescriptionInputs : handleEditMap(n, d)
  \/ closeEditMapModal
  \/ openDeleteMapModal
  \/ handleConfirm
  \/ cancelDelete
  \/ clickDeleteBackdrop
  \/ closeLocationForm
  \/ ServeMapPage
  \/ ReceiveMapPage

SpecMapPage == InitMapPage /\ [][NextMapPage]_vars

\* the server answers every request, and every answer reaches its handler
SpecMapPageLive ==
  SpecMapPage /\ WF_vars(ServeMapPage) /\ WF_vars(ReceiveMapPage)

\* ------------------------------------------------------------------------
\* ProjectPage, with CreateLocationTemplateModal and ConfirmDeleteModal, and
\* the server that answers its requests
\* ------------------------------------------------------------------------
\* the two entity templates of the project and an entity of each
TemplateA == [id |-> Uuid(2), project_id |-> PageProjectId, name |-> "Hero",
              schema |-> << >>]
TemplateB == [id |-> Uuid(3), project_id |-> PageProjectId, name |-> "Beast",
              schema |-> << >>]
EntityOf(id, t, n) ==
  [id |-> id, project_id |-> PageProjectId, template_id |-> t.id, name |-> n,
   data |-> NoData]
StoredEntities ==
  << EntityOf(Uuid(4), TemplateA, "Ann"), EntityOf(Uuid(5), TemplateB, "Wolf") >>
StoredLocationTemplate ==
  [id |-> Uuid(6), project_id |-> PageProjectId, name |-> "Town", schema |-> << >>]

\* the store when the page is opened
ProjectPageDb ==
  [EmptyDb EXCEPT
     !.projects = { [id |-> PageProjectId, name |-> "World"] },
     !.templates = { TemplateA, TemplateB },
     !.location_templates = { StoredLocationTemplate },
     !.next = 7]

\* the page after loadData
MountedProjectPage ==
  [mounted |-> TRUE,
   templates |-> << TemplateB, TemplateA >>,
   selectedTemplate |-> << >>,
   entities |-> << >>,
   loadingEntities |-> FALSE,
   locationTemplates |-> << StoredLocationTemplate >>,
   showCreateLocationTemplate |-> FALSE,
   showDeleteModal |-> FALSE, deletingItem |-> << >>, isDeleting |-> FALSE,
   alert |-> "",
   sent |-> 0,
   created |-> 0,
   net |-> {}]

\* what the user types into CreateLocationTemplateModal
LocationTemplateNameInputs == {" ", "Inn"}
LocationTemplateFieldInputs ==
  { << >>, << [name |-> "beds", type |-> "text", options |-> << >>] >>,
    << [name |-> " ", type |-> "text", options |-> << >>] >> }

InProjectPage ==
  UNCHANGED << formVars, templateModal, entities, db, status, mapPage, listPage >>
OnProjectPage == UNCHANGED << formVars, templateModal, entities, mapPage, listPage >>

\* no modal covers the page
NoProjectModal ==
  ~projectPage.showCreateLocationTemplate /\ ~projectPage.showDeleteModal

\* a request of the page, not yet answered
ProjectRequest(kind, id) ==
  [kind |-> kind, n |-> projectPage.sent + 1, id |-> id, reply |-> 0,
   answer |-> << >>]

\* handleTemplateSelected, and fetchEntities up to its await
handleTemplateSelected(t) ==
  /\ projectPage.mounted /\ NoProjectModal
  /\ \E i \in 1..Len(projectPage.templates) : projectPage.templates[i] = t
  /\ projectPage.sent < MaxProjectRequests
  /\ projectPage' =
       [projectPage EXCEPT
          !.selectedTemplate = << t >>,
          !.loadingEntities = TRUE,
          !.sent = @ + 1,
          !.net = @ \cup { ProjectRequest("entities", t.id) }]
  /\ InProjectPage

\* the + Create Location Template button
openCreateLocationTemplate ==
  /\ projectPage.mounted /\ NoProjectModal
  /\ projectPage.created < MaxCreated
  /\ projectPage' = [projectPage EXCEPT !.showCreateLocationTemplate = TRUE]
  /\ InProjectPage

\* the schema that handleSubmit builds from the rows of the modal
TemplateDataSchema(fields) ==
  [i \in 1..Len(fields) |->
     [name |-> Trim(fields[i].name), type |-> fields[i].type, required |-> FALSE]]

\* handleSubmit of CreateLocationTemplateModal, and onCreate of the page:
\* handleLocationTemplateCreated
submitLocationTemplate(templateName, fields) ==
  /\ projectPage.mounted /\ projectPage.showCreateLocationTemplate
  /\ IF Trim(templateName) = ""
     THEN projectPage' = [projectPage EXCEPT !.alert = "Please enter a template name"]
     ELSE IF \E i \in 1..Len(fields) : Trim(fields[i].name) = ""
     THEN projectPage' = [projectPage EXCEPT !.alert = "Field needs a name"]
     ELSE projectPage' =
            [projectPage EXCEPT
               !.locationTemplates =
                  << [name |-> Trim(templateName), description |-> "",
                      schema |-> TemplateDataSchema(fields), icon_url |-> ""] >>
                    \o @,
               !.showCreateLocationTemplate = FALSE,
               !.created = @ + 1]
  /\ InProjectPage

\* onClose of CreateLocationTemplateModal
closeCreateLocationTemplate ==
  /\ projectPage.mounted /\ projectPage.showCreateLocationTemplate
  /\ projectPage' = [projectPage EXCEPT !.showCreateLocationTemplate = FALSE]
  /\ InProjectPage

\* item.id of a list entry: undefined prints as "undefined" in the URL
ItemId(item) == IF "id" \in DOMAIN item THEN item.id ELSE "undefined"

\* handleDeleteLocationTemplate
handleDeleteLocationTemplate(i) ==
  /\ projectPage.mounted /\ NoProjectModal
  /\ i \in 1..Len(projectPage.locationTemplates)
  /\ projectPage' =
       [projectPage EXCEPT
          !.deletingItem = << ItemId(projectPage.locationTemplates[i]) >>,
          !.showDeleteModal = TRUE, !.isDeleting = FALSE]
  /\ InProjectPage

\* handleConfirm of ConfirmDeleteModal and confirmDelete up to its await
confirmDelete ==
  /\ projectPage.mounted /\ projectPage.showDeleteModal
  /\ ~projectPage.isDeleting
  /\ projectPage.sent < MaxProjectRequests
  /\ projectPage' =
       [projectPage EXCEPT
          !.isDeleting = TRUE,
          !.sent = @ + 1,
          !.net = @ \cup { ProjectRequest("delete", projectPage.deletingItem[1]) }]
  /\ InProjectPage

\* onCancel of the ConfirmDeleteModal of the page: the backdrop, or Cancel
\* while it is enabled
cancelProjectDelete ==
  /\ projectPage.mounted /\ projectPage.showDeleteModal
  /\ projectPage' = [projectPage EXCEPT !.showDeleteModal = FALSE,
                                        !.deletingItem = << >>,
                                        !.isDeleting = FALSE]
  /\ InProjectPage

\* SELECT * FROM entities WHERE template_id = ? ORDER BY created_at DESC
EntitiesOfTemplate(templateId) ==
  LET rows == SelectSeq(entities, LAMBDA r : r.template_id = templateId)
  IN [i \in 1..Len(rows) |-> rows[Len(rows) + 1 - i]]

\* the server handles one request of the page
ServeProjectPage ==
  /\ projectPage.mounted
  /\ \E req \in { r \in projectPage.net : r.reply = 0 }, dbError \in BOOLEAN :
       /\ IF req.kind = "entities"
          THEN ListRoute(dbError)
          ELSE DeleteLocationTemplate(req.id, dbError)
       /\ projectPage' =
            [projectPage EXCEPT
               !.net = (@ \ { req }) \cup
                         { [req EXCEPT
                              !.reply = status',
                              !.answer = IF req.kind = "entities" /\ status' = 200
                                         THEN EntitiesOfTemplate(req.id)
                                         ELSE << >>] }]
  /\ OnProjectPage

\* a handler of the page after its await, with the answer to its request
AfterProjectAwait(page, req) ==
  IF req.kind = "entities"
  THEN [page EXCEPT !.entities = IF req.reply = 200 THEN req.answer ELSE << >>,
                    !.loadingEntities = FALSE]
  ELSE IF req.reply = 200
  THEN [page EXCEPT
          !.locationTemplates = SelectSeq(@, LAMBDA t : ItemId(t) # req.id),
          !.showDeleteModal = FALSE, !.deletingItem = << >>,
          !.isDeleting = FALSE]
  ELSE [page EXCEPT !.alert = "Failed to delete location template"]

\* the answer to a request arrives and its handler runs to its end
ReceiveProjectPage ==
  /\ projectPage.mounted
  /\ \E req \in { r \in projectPage.net : r.reply # 0 } :
       projectPage' = AfterProjectAwait([projectPage EXCEPT !.net = @ \ { req }], req)
  /\ InProjectPage

InitProjectPage ==
  /\ template = [id |-> TemplateId, schema |-> BaseFields]
  /\ formData = EmptyMap
  /\ name = ""
  /\ error = ""
  /\ submitting = FALSE
  /\ modal = "closed"
  /\ heap = << >>
  /\ globals = InitialGlobals
  /\ request = << >>
  /\ response = << >>
  /\ entities = StoredEntities
  /\ pass = NoPass
  /\ runs = {}
  /\ nruns = 0
  /\ nedits = 0
  /\ db = ProjectPageDb
  /\ status = 0
  /\ templateModal = NoTemplateModal
  /\ mapPage = NoMapPage
  /\ projectPage = MountedProjectPage
  /\ listPage = NoListPage

NextProjectPage ==
  \/ \E t \in { TemplateA, TemplateB } : handleTemplateSelected(t)
  \/ openCreateLocationTemplate
  \/ \E n \in LocationTemplateNameInputs, fields \in LocationTemplateFieldInputs :
       submitLocationTemplate(n, fields)
  \/ closeCreateLocationTemplate
  \/ \E i \in 1..(MaxCreated + 1) : handleDeleteLocationTemplate(i)
  \/ confirmDelete
  \/ cancelProjectDelete
  \/ ServeProjectPage
  \/ ReceiveProjectPage

SpecProjectPage == InitProjectPage /\ [][NextProjectPage]_vars

\* ------------------------------------------------------------------------
\* ProjectListPage (pages/ProjectListPage.js) with CreateProjectButton
\* (components/CreateProjectButton.js) over the project routes. A handler
\* that awaits a fetch keeps the `projects` of the render in which it was
\* started: deleteProject and handleProjectCreated compute the next list
\* from that array, not from the list displayed when the answer arrives.
\* ------------------------------------------------------------------------
StoredProjects ==
  << [id |-> Uuid(1), name |-> "World"], [id |-> Uuid(2), name |-> "Moon"] >>

\* the store when the page is opened
ListPageDb ==
  [EmptyDb EXCEPT
     !.projects = { StoredProjects[i] : i \in 1..Len(StoredProjects) },
     !.next = 3]

\* the page after fetchProjects; `removed` records the ids whose DELETE was
\* answered with success to its handler
MountedListPage ==
  [mounted |-> TRUE,
   projects |-> StoredProjects,
   error |-> "",
   showCreate |-> FALSE,
   submitting |-> FALSE,
   createError |-> "",
   sent |-> 0,
   removed |-> {},
   net |-> {}]

\* what the user types into the name input of CreateProjectButton
ProjectNameInputs == {" ", "Sun"}

InListPage ==
  UNCHANGED << formVars, templateModal, entities, db, status, mapPage, projectPage >>
OnListPage == UNCHANGED << formVars, templateModal, entities, mapPage, projectPage >>

\* a request of the page, not yet answered, with the `projects` its handler
\* closes over
ListRequest(kind, id, body) ==
  [kind |-> kind, n |-> listPage.sent + 1, id |-> id, body |-> body,
   projects |-> listPage.projects, reply |-> 0, answer |-> << >>]

\* deleteProject up to its await: the delete button of a project card
deleteProject(projectId) ==
  /\ listPage.mounted /\ ~listPage.showCreate
  /\ \E i \in 1..Len(listPage.projects) : listPage.projects[i].id = projectId
  /\ listPage.sent < MaxListRequests
  /\ listPage' =
       [listPage EXCEPT
          !.sent = @ + 1,
          !.net = @ \cup { ListRequest("delete", projectId, << >>) }]
  /\ InListPage

\* the Create Project button mounts CreateProjectButton
openCreateProject ==
  /\ listPage.mounted /\ ~listPage.showCreate
  /\ listPage.sent < MaxListRequests
  /\ listPage' = [listPage EXCEPT !.showCreate = TRUE, !.submitting = FALSE,
                                  !.createError = ""]
  /\ InListPage

\* CreateProjectButton.handleSubmit up to its await
handleSubmitProject(projectName) ==
  /\ listPage.mounted /\ listPage.showCreate /\ ~listPage.submitting
  /\ IF Trim(projectName) = ""
     THEN listPage' = [listPage EXCEPT !.createError = "Project name is required"]
     ELSE /\ listPage.sent < MaxListRequests
          /\ listPage' =
               [listPage EXCEPT
                  !.submitting = TRUE,
                  !.sent = @ + 1,
                  !.net = @ \cup
                    { ListRequest("create", "",
                                  [name |-> projectName, description |-> ""]) }]
  /\ InListPage

\* the Cancel button of CreateProjectButton
closeCreateProject ==
  /\ listPage.mounted /\ listPage.showCreate /\ ~listPage.submitting
  /\ listPage' = [listPage EXCEPT !.showCreate = FALSE]
  /\ InListPage

\* the Dismiss button of the error message
dismissError ==
  /\ listPage.mounted /\ ~listPage.showCreate /\ listPage.error # ""
  /\ listPage' = [listPage EXCEPT !.error = ""]
  /\ InListPage

\* the server handles one request of the page
ServeListPage ==
  /\ listPage.mounted
  /\ \E req \in { r \in listPage.net : r.reply = 0 }, dbError \in BOOLEAN :
       /\ IF req.kind = "delete"
          THEN DeleteProject(req.id, dbError)
          ELSE CreateProject(req.body, dbError)
       /\ listPage' =
            [listPage EXCEPT
               !.net = (@ \ { req }) \cup
                         { [req EXCEPT
                              !.reply = status',
                              !.answer = IF status' = 201
                                         THEN << CHOOSE r \in db'.projects :
                                                   r.id = Uuid(db.next) >>
                                         ELSE << >>] }]
  /\ OnListPage

\* a handler after its await, with the answer to its request
AfterListAwait(page, req) ==
  IF req.kind = "delete"
  THEN IF req.reply = 200
       THEN [page EXCEPT
               !.projects = SelectSeq(req.projects, LAMBDA p : p.id # req.id),
               !.removed = @ \cup { req.id }]
       ELSE [page EXCEPT !.error = "Failed to delete project"]
  ELSE IF req.reply = 201
       THEN [page EXCEPT !.projects = req.answer \o req.projects,
                         !.showCreate = FALSE, !.submitting = FALSE]
       ELSE [page EXCEPT !.createError = "Failed to create project",
                         !.submitting = FALSE]

\* the answer to a request arrives and its handler runs to its end
ReceiveListPage ==
  /\ listPage.mounted
  /\ \E req \in { r \in listPage.net : r.reply # 0 } :
       listPage' = AfterListAwait([listPage EXCEPT !.net = @ \ { req }], req)
  /\ InListPage

InitListPage ==
  /\ template = [id |-> TemplateId, schema |-> BaseFields]
  /\ formData = EmptyMap
  /\ name = ""
  /\ error = ""
  /\ submitting = FALSE
  /\ modal = "closed"
  /\ heap = << >>
  /\ globals = InitialGlobals
  /\ request = << >>
  /\ response = << >>
  /\ entities = << >>
  /\ pass = NoPass
  /\ runs = {}
  /\ nruns = 0
  /\ nedits = 0
  /\ db = ListPageDb
  /\ status = 0
  /\ templateModal = NoTemplateModal
  /\ mapPage = NoMapPage
  /\ projectPage = NoProjectPage
  /\ listPage = MountedListPage

NextListPage ==
  \/ \E i \in 1..(Len(StoredProjects) + MaxListRequests) : deleteProject(Uuid(i))
  \/ openCreateProject
  \/ \E n \in ProjectNameInputs : handleSubmitProject(n)
  \/ closeCreateProject
  \/ dismissError
  \/ ServeListPage
  \/ ReceiveListPage

SpecListPage == InitListPage /\ [][NextListPage]_vars

\* ------------------------------------------------------------------------
\* C11: when the evaluation of a submission begins, the value map holds an
\* entry for every field of the template that is not computed, whether or
\* not the user changed its input
\* ------------------------------------------------------------------------
InputFieldNames ==
  { template.schema[i].name :
      i \in { j \in 1..Len(template.schema) : template.schema[j].type # "computed" } }

C11_EntryForEveryInputField ==
  pass.done => InputFieldNames \subseteq DOMAIN pass.pre.data

\* ------------------------------------------------------------------------
\* C12: every schema saved through CreateTemplateModal or EditTemplateModal
\* has exactly one entry per field name, and an entry carries a formula if
\* and only if its type is computed
\* ------------------------------------------------------------------------
C12_SavedSchemaWellFormed ==
  \A sc \in SavedSchemas :
    /\ \A i, j \in 1..Len(sc) : i # j => sc[i].name # sc[j].name
    /\ \A i \in 1..Len(sc) : sc[i].formula.def <=> sc[i].type = "computed"

\* ------------------------------------------------------------------------
\* C13: a computed field whose formula is the sum of two number fields a and
\* b, both supplied, evaluates to a + b
\* ------------------------------------------------------------------------
\* a template with the number fields a and b and the computed field total,
\* with or without a further number field declared before them
SumSchemas ==
  { prefix \o << Field("a", "number", NoFormula),
                 Field("b", "number", NoFormula),
                 Field("total", "computed", Text(Add(Id("a"), Id("b")))) >> :
      prefix \in { << >>, << Field("max hp", "number", NoFormula) >> } }

\* a and b typed into their inputs, the further field typed or left alone
SumFormStates ==
  { [key \in {"a", "b"} \cup extra |->
       CASE key = "a" -> Num(x) [] key = "b" -> Num(y) [] OTHER -> Num(z)] :
      x \in 0..MaxNumber, y \in 0..MaxNumber, z \in 0..1,
      extra \in SUBSET {"max hp"} }

InitSum ==
  /\ template \in { [id |-> TemplateId, schema |-> sc] : sc \in SumSchemas }
  /\ formData \in { fs \in SumFormStates :
                      DOMAIN fs \subseteq
                        { template.schema[i].name : i \in 1..Len(template.schema) } }
  /\ nedits = 0
  /\ heap = << >>
  /\ name \in NameInputs
  /\ error = ""
  /\ submitting = FALSE
  /\ modal = "open"
  /\ globals = InitialGlobals
  /\ request = << >>
  /\ response = << >>
  /\ entities = << >>
  /\ pass = NoPass
  /\ runs = {}
  /\ nruns = 0
  /\ db = EmptyDb
  /\ status = 0
  /\ templateModal = NoTemplateModal
  /\ mapPage = NoMapPage
  /\ projectPage = NoProjectPage
  /\ listPage = NoListPage

SpecSum == InitSum /\ [][NextEval]_vars

C13_SumOfTwoNumbers ==
  (pass.done /\ {"a", "b"} \subseteq DOMAIN pass.pre.data)
    => /\ "total" \in DOMAIN pass.data
       /\ pass.data["total"] = Num(pass.pre.data["a"].n + pass.pre.data["b"].n)

\* ------------------------------------------------------------------------
\* C14: when the template has no computed field, the data sent on submit is
\* exactly what the user supplied in the form
\* ------------------------------------------------------------------------
C14_NoComputedFieldDataIsFormData ==
  (request # << >> /\ ComputedFields = {})
    => /\ pass.data = formData
       /\ pass.heap = pass.pre.heap
       /\ request[1].data = JsonStringify(formData, pass.pre.heap)

C14_Witness ==
  /\ request # << >>
  /\ ComputedFields = {}
  /\ DOMAIN formData = {"a", "max hp", "tags"}
  /\ request[1].data["a"].n = 2
  /\ request[1].data["tags"].items = << JsonScalar(Str("t1")) >>

\* ------------------------------------------------------------------------
\* C15: two submissions share no mutable state; each submission's computed
\* results are the ones it produces when it is the only submission
\* ------------------------------------------------------------------------
\* the computed entries of the last pass, had it run in a page where no
\* other submission ran before it
ResultAlone ==
  LET st == EvaluatePass(template.schema, pass.pre.data, pass.pre.heap,
                         InitialGlobals, "")
  IN Deep(ComputedEntries(template.schema, st.data), st.heap)

C15_SubmissionsAreIsolated ==
  pass.done =>
    Deep(ComputedEntries(template.schema, pass.data), pass.heap) = ResultAlone

C17_DeleteMapRemovesLocations ==
  [][\A p \in KnownIds, m \in KnownIds :
       (DeleteMap(p, m, FALSE) /\ status' = 200)
         => ~\E l \in db'.locations : l.map_id = m]_vars

\* ------------------------------------------------------------------------
\* C18: after a successful DELETE /api/location-templates/:templateId no
\* location with that template_id remains
\* ------------------------------------------------------------------------
C18_DeleteLocationTemplateRemovesLocations ==
  [][\A t \in KnownIds :
       (DeleteLocationTemplate(t, FALSE) /\ status' = 200)
         => ~\E l \in db'.locations : l.template_id = t]_vars

\* ------------------------------------------------------------------------
\* C19: after a successful DELETE /api/templates/:templateId no entity
\* created from that template remains
\* ------------------------------------------------------------------------
C19_DeleteTemplateRemovesEntities ==
  [][\A t \in KnownIds :
       (DeleteTemplate(t, FALSE) /\ status' = 200 /\ UNCHANGED entities)
         => ~\E i \in 1..Len(entities') : entities'[i].template_id = t]_vars

\* ------------------------------------------------------------------------
\* C20: in every reachable state of the store every location names an
\* existing map and an existing location template, every entity an existing
\* template, and every template, map and entity an existing project
\* ------------------------------------------------------------------------
IdsOf(rows) == { r.id : r \in rows }

C20_ReferentialIntegrity ==
  /\ \A l \in db.locations :
       /\ l.map_id \in IdsOf(db.maps)
       /\ l.template_id \in IdsOf(db.location_templates)
  /\ \A i \in 1..Len(entities) :
       /\ entities[i].template_id \in IdsOf(db.templates)
       /\ entities[i].project_id \in IdsOf(db.projects)
  /\ \A t \in db.templates : t.project_id \in IdsOf(db.projects)
  /\ \A m \in db.maps : m.project_id \in IdsOf(db.projects)

\* ------------------------------------------------------------------------
\* C21: every location in the store has its x_position and its y_position
\* within 0.0 and 1.0, both included (0 and 100 hundredths)
\* ------------------------------------------------------------------------
C21_PositionsInUnitSquare ==
  \A l \in db.locations :
    /\ l.x_position \in 0..100
    /\ l.y_position \in 0..100

\* ------------------------------------------------------------------------
\* C22: a create or update request that lacks a required field is answered
\* 400 and inserts or modifies no row
\* ------------------------------------------------------------------------
LacksAny(body, keys) == \E k \in keys : Lacks(body, k)

\* the bodies of a set that lack one of the properties `keys`
Lacking(bodies, keys) == { body \in bodies : LacksAny(body, keys) }

\* the answer is 400 and every table is as it was
Refused == status' = 400 /\ UNCHANGED << db, entities >>

\* the route, run in this state, refuses the request
Refuses(route) == ~ENABLED (route /\ ~Refused)

\* the requests that lack a field of the stated list and that the routes
\* test with that list
RefusesCreates ==
  /\ \A body \in Lacking(NameBodies(CreatedNames), {"name"}), e \in BOOLEAN :
       Refuses(CreateProject(body, e) /\ OnDb)
  /\ \A p \in RequestIds, body \in Lacking(MapBodies(CreatedNames), {"name"}),
        e \in BOOLEAN :
       Refuses(CreateMap(p, body, e) /\ OnDb)
  /\ \A p \in RequestIds,
        body \in Lacking(TemplateBodies(CreatedNames), {"name", "schema"}),
        e \in BOOLEAN :
       /\ Refuses(CreateTemplate(p, body, e) /\ OnDb)
       /\ Refuses(CreateLocationTemplate(p, body, e) /\ OnDb)
  /\ \A t \in RequestIds,
        body \in Lacking(EntityRequests, {"project_id", "name", "data"}),
        e \in BOOLEAN :
       Refuses(CreateEntity(t, body, e)
                 /\ UNCHANGED << formVars, templateModal, pageVars >>)
  /\ \A m \in RequestIds,
        body \in Lacking(LocationRequests,
                         {"template_id", "name", "x_position", "y_position",
                          "data"}),
        e \in BOOLEAN :
       Refuses(CreateLocation(m, body, e) /\ OnDb)

RefusesUpdates ==
  /\ \A id \in RequestIds, body \in Lacking(NameBodies(UpdatedNames), {"name"}),
        e \in BOOLEAN :
       Refuses(UpdateProject(id, body, e) /\ OnDb)
  /\ \A p \in RequestIds, id \in RequestIds,
        body \in Lacking(MapBodies(UpdatedNames), {"name"}), e \in BOOLEAN :
       Refuses(UpdateMap(p, id, body, e) /\ OnDb)
  /\ \A id \in RequestIds,
        body \in Lacking(TemplateBodies(UpdatedNames), {"name", "schema"}),
        e \in BOOLEAN :
       /\ Refuses(UpdateTemplate(id, body, e) /\ OnDb)
       /\ Refuses(UpdateLocationTemplate(id, body, e) /\ OnDb)

\* C22 as stated: an update of an entity requires project_id, name and
\* data, an update of a location template_id, name, x_position, y_position
\* and data
C22_LackingFieldIsRefused ==
  /\ RefusesCreates
  /\ RefusesUpdates
  /\ \A id \in RequestIds,
        body \in Lacking(EntityUpdateRequests, {"project_id", "name", "data"}),
        e \in BOOLEAN :
       Refuses(UpdateEntity(id, body, e) /\ OnEntities)
  /\ \A id \in RequestIds,
        body \in Lacking(LocationUpdateRequests,
                         {"template_id", "name", "x_position", "y_position",
                          "data"}),
        e \in BOOLEAN :
       Refuses(UpdateLocation(id, body, e) /\ OnDb)

\* C22 with the fields the update routes test: an update of an entity
\* requires name and data, an update of a location name, x_position,
\* y_position and data; the creates and the other updates as stated
C22_LackingTestedFieldIsRefused ==
  /\ RefusesCreates
  /\ RefusesUpdates
  /\ \A id \in RequestIds,
        body \in Lacking(EntityUpdateRequests, {"name", "data"}), e \in BOOLEAN :
       Refuses(UpdateEntity(id, body, e) /\ OnEntities)
  /\ \A id \in RequestIds,
        body \in Lacking(LocationUpdateRequests,
                         {"name", "x_position", "y_position", "data"}),
        e \in BOOLEAN :
       Refuses(UpdateLocation(id, body, e) /\ OnDb)

\* a request was refused while the store holds a location
C22_Witness == status = 400 /\ db.locations # {}

\* ------------------------------------------------------------------------
\* C23: a GET, PUT or DELETE addressed to an id that no row has (for a map:
\* no row under the given project id) is answered 404 and changes no row
\* ------------------------------------------------------------------------
NoRow(rows, id) == ~\E r \in rows : r.id = id
NoMap(projectId, mapId) ==
  ~\E r \in db.maps : r.id = mapId /\ r.project_id = projectId

\* the answer is 404 and every table is as it was
NotFound == status' = 404 /\ UNCHANGED << db, entities >>

\* the route, run in this state, answers that there is no such row
Misses(route) == ~ENABLED (route /\ ~NotFound)

\* the GET and DELETE requests for one row
NotFoundOnGetAndDelete ==
  /\ \A id \in RequestIds :
       /\ NoRow(db.projects, id) =>
            /\ Misses(GetProject(id, FALSE) /\ OnDb)
            /\ Misses(DeleteProject(id, FALSE) /\ OnDb)
       /\ NoRow(db.templates, id) =>
            /\ Misses(GetTemplate(id, FALSE) /\ OnDb)
            /\ Misses(DeleteTemplate(id, FALSE) /\ OnDb)
       /\ NoRow(db.location_templates, id) =>
            /\ Misses(GetLocationTemplate(id, FALSE) /\ OnDb)
            /\ Misses(DeleteLocationTemplate(id, FALSE) /\ OnDb)
       /\ NoRow(db.locations, id) =>
            /\ Misses(GetLocation(id, FALSE) /\ OnDb)
            /\ Misses(DeleteLocation(id, FALSE) /\ OnDb)
       /\ EntityRows(id) = {} => Misses(DeleteEntity(id, FALSE) /\ OnEntities)
  /\ \A p \in RequestIds, id \in RequestIds :
       NoMap(p, id) =>
         /\ Misses(GetMap(p, id, FALSE) /\ OnDb)
         /\ Misses(DeleteMap(p, id, FALSE) /\ OnDb)

\* the PUT requests whose bodies are in the given sets
NotFoundOnPut(names, maps, templates, locations, ents) ==
  /\ \A id \in RequestIds :
       /\ NoRow(db.projects, id) =>
            \A body \in names : Misses(UpdateProject(id, body, FALSE) /\ OnDb)
       /\ NoRow(db.templates, id) =>
            \A body \in templates : Misses(UpdateTemplate(id, body, FALSE) /\ OnDb)
       /\ NoRow(db.location_templates, id) =>
            \A body \in templates :
              Misses(UpdateLocationTemplate(id, body, FALSE) /\ OnDb)
       /\ NoRow(db.locations, id) =>
            \A body \in locations : Misses(UpdateLocation(id, body, FALSE) /\ OnDb)
       /\ EntityRows(id) = {} =>
            \A body \in ents : Misses(UpdateEntity(id, body, FALSE) /\ OnEntities)
  /\ \A p \in RequestIds, id \in RequestIds :
       NoMap(p, id) =>
         \A body \in maps : Misses(UpdateMap(p, id, body, FALSE) /\ OnDb)

\* the bodies of a set that hold every one of the properties `keys`
Holding(bodies, keys) == { body \in bodies : ~LacksAny(body, keys) }

\* C23 as stated: every GET, PUT and DELETE, whatever the body of the PUT
C23_MissingIdIsNotFound ==
  /\ NotFoundOnGetAndDelete
  /\ NotFoundOnPut(NameBodies(UpdatedNames), MapBodies(UpdatedNames),
                   TemplateBodies(UpdatedNames), LocationUpdateRequests,
                   EntityUpdateRequests)

\* C23 for the requests that pass the validation of their route: every GET
\* and DELETE, and every PUT whose body holds the fields the route tests
C23_MissingIdOfValidRequestIsNotFound ==
  /\ NotFoundOnGetAndDelete
  /\ NotFoundOnPut(Holding(NameBodies(UpdatedNames), {"name"}),
                   Holding(MapBodies(UpdatedNames), {"name"}),
                   Holding(TemplateBodies(UpdatedNames), {"name", "schema"}),
                   Holding(LocationUpdateRequests,
                           {"name", "x_position", "y_position", "data"}),
                   Holding(EntityUpdateRequests, {"name", "data"}))

\* a request was answered 404 while the store holds a map
C23_Witness == status = 404 /\ db.maps # {}

\* ------------------------------------------------------------------------
\* C24: each selection of a location template in the map page places at
\* most one location: the store never holds more locations than templates
\* were selected, also when the image is clicked again while the create
\* request is in flight
\* ------------------------------------------------------------------------
C24_OneLocationPerSelection ==
  mapPage.mounted => Cardinality(db.locations) <= mapPage.selections

\* ------------------------------------------------------------------------
\* C29: after a successful save of EditMapModal the map in the page state
\* has the id and the image it had before, so an uploaded image stays
\* displayed
\* ------------------------------------------------------------------------
C29_EditKeepsImage ==
  [][\A req \in (IF mapPage.mounted THEN mapPage.net ELSE {}) :
       (/\ req.kind = "edit" /\ req.reply = 200
        /\ mapPage' = AfterAwait([mapPage EXCEPT !.net = @ \ { req }], req))
         => /\ mapPage'.map.id = mapPage.map.id
            /\ HasImage(mapPage.map) => /\ HasImage(mapPage'.map)
                                        /\ mapPage'.map.image = mapPage.map.image]_vars

\* ------------------------------------------------------------------------
\* C30: after a deletion confirmed in ConfirmDeleteModal fails, the modal
\* eventually has its Delete and Cancel buttons enabled again (isDeleting
\* is false)
\* ------------------------------------------------------------------------
\* the modal is open and handleDeleteMap has reported its failure
DeletionFailed ==
  /\ mapPage.mounted
  /\ mapPage.showDeleteMapModal
  /\ mapPage.isDeleting
  /\ mapPage.alert = "Failed to delete map"
  /\ ~\E req \in mapPage.net : req.kind = "delete"

\* the modal is open with both buttons enabled
DeleteModalEnabled ==
  /\ mapPage.mounted
  /\ mapPage.showDeleteMapModal
  /\ ~mapPage.isDeleting

C30_ButtonsEnabledAfterFailure == DeletionFailed ~> DeleteModalEnabled

\* ------------------------------------------------------------------------
\* C25: in the project page, once every pending entity fetch has completed,
\* the displayed entity list is that of the currently selected template
\* (or empty, when its fetch failed)
\* ------------------------------------------------------------------------
NoFetchPending == ~\E req \in projectPage.net : req.kind = "entities"

C25_EntitiesOfSelectedTemplate ==
  (/\ projectPage.mounted
   /\ projectPage.selectedTemplate # << >>
   /\ NoFetchPending)
    => projectPage.entities
         \in { EntitiesOfTemplate(projectPage.selectedTemplate[1].id), << >> }

\* ------------------------------------------------------------------------
\* C27: every location template shown in the location-template list of the
\* project page exists in the store with the same id (while no deletion is
\* in flight)
\* ------------------------------------------------------------------------
NoDeletePending == ~\E req \in projectPage.net : req.kind = "delete"

C27_ShownLocationTemplatesAreStored ==
  (projectPage.mounted /\ NoDeletePending)
    => \A i \in 1..Len(projectPage.locationTemplates) :
         /\ "id" \in DOMAIN projectPage.locationTemplates[i]
         /\ \E r \in db.location_templates :
              r.id = projectPage.locationTemplates[i].id

\* ------------------------------------------------------------------------
\* C26: in the project list page a project whose DELETE request succeeded
\* never appears in the displayed list again, whatever the order in which
\* the deletes and creates in flight complete
\* ------------------------------------------------------------------------
C26_DeletedProjectsStayGone ==
  listPage.mounted =>
    \A i \in 1..Len(listPage.projects) :
      listPage.projects[i].id \notin listPage.removed

\* ------------------------------------------------------------------------
\* C28: round trip of template editing. When EditTemplateModal is open on a
\* template of the store and nothing was changed, Save sends an update whose
\* schema equals the stored schema, whatever the types of the fields
\* (select and multiselect with their options included)
\* ------------------------------------------------------------------------
\* EditTemplateModal shows template t as the effect copied it
OpenedUnchanged(t) ==
  /\ templateModal.kind = "edit"
  /\ templateModal.id = t.id
  /\ templateModal.templateName = t.name
  /\ templateModal.fields = t.schema
  /\ templateModal.request = << >> /\ templateModal.response = << >>

C28_SaveUnchangedSendsStoredSchema ==
  \A t \in db.templates :
    OpenedUnchanged(t) =>
      ENABLED (/\ handleSubmitTemplate
               /\ templateModal'.request # << >>
               /\ templateModal'.request[1].schema = t.schema)

====
